---------------------------- MODULE Spec2Model ----------------------------
(***************************************************************************)
(* A model of the datealgo date algorithms (src/src/lib.rs): conversions   *)
(* between Rata Die day counts, Gregorian dates, weekdays, ISO week dates  *)
(* and seconds since the Unix epoch.                                       *)
(*                                                                         *)
(* Representation of machine integers.  The model checker's integers are   *)
(* 32 bits wide, while the code computes in u32 (values up to 2^32 - 1)    *)
(* and u64/i64.  Every intermediate machine word is therefore modelled as  *)
(* its bit pattern: a little-endian sequence of 8-bit limbs, 4 limbs for   *)
(* a 32-bit word and 8 limbs for a 64-bit word (two's complement for the   *)
(* signed types).  The arithmetic below is the wrapping arithmetic of the  *)
(* machine word, so that a multiply-shift trick is computed exactly as     *)
(* the code computes it.                                                   *)
(*                                                                         *)
(* Interface values: an i32 (rata die, year) or a u8 (month, day, hour,    *)
(* weekday ...) is a plain integer; an i64 (seconds) is an 8-limb word,    *)
(* built with I64(n) from a 32-bit integer n or with I64Dec(hi, lo) for    *)
(* the value hi * 10^9 + lo; a u32 of nanoseconds is a 4-limb word.        *)
(* Tuples are sequences, as in the code.                                   *)
(***************************************************************************)
EXTENDS Integers, Sequences, FiniteSets, TLC

VARIABLES debug, kind, arg, op, res, panic

vars == <<debug, kind, arg, op, res, panic>>

---------------------------------------------------------------------------
(* Machine words as little-endian limb sequences.                          *)

\* radix of one limb (8 bits)
Base == 2^8

\* the k-limb two's complement pattern of the integer n (n may be negative:
\* floor division and modulus sign-extend)
RECURSIVE Limbs(_, _)
Limbs(n, k) == IF k = 0 THEN <<>> ELSE <<n % Base>> \o Limbs(n \div Base, k - 1)

\* `n as u32` / the bits of an i32
W32(n) == Limbs(n, 4)

\* `n as i64` / `n as u64` of an i32 n (sign extension), and 64-bit literals
I64(n) == Limbs(n, 8)

\* zero extension of a word to k limbs (`x as u64` of a u32 x)
ZExt(w, k) == w \o [i \in 1..(k - Len(w)) |-> 0]

\* sign extension of a word to k limbs (`x as i64` of an i32 x)
SExt(w, k) == w \o [i \in 1..(k - Len(w)) |-> IF w[Len(w)] >= 128 THEN 255 ELSE 0]

\* truncation to the low k limbs (`x as u32` of a u64 x, `x % 2^32`)
Trunc(w, k) == SubSeq(w, 1, k)

\* logical shift right by whole limbs (`x >> 32`, `x / 2^32`, `x / 2^16`)
ShrLimbs(w, j) == ZExt(SubSeq(w, j + 1, Len(w)), Len(w))

\* the signed (two's complement) value of a 4-limb word: `x as i32`
I32Val(w) == w[1] + Base * (w[2] + Base * (w[3] + Base * (IF w[4] >= 128 THEN w[4] - Base ELSE w[4])))

\* `x as u8`
U8Val(w) == w[1]

\* a + b + c on words of equal length, wrapping at the word size
RECURSIVE AddC(_, _, _)
AddC(a, b, c) ==
    IF a = <<>> THEN <<>>
    ELSE LET s == Head(a) + Head(b) + c
         IN  <<s % Base>> \o AddC(Tail(a), Tail(b), s \div Base)

\* wrapping addition
AddW(a, b) == AddC(a, b, 0)

\* bitwise complement
NotW(a) == [i \in 1..Len(a) |-> (Base - 1) - a[i]]

\* wrapping subtraction a - b = a + ~b + 1
SubW(a, b) == AddC(a, NotW(b), 1)

\* a * m + c for a limb-sized m, wrapping at the word size
RECURSIVE MulC(_, _, _)
MulC(a, m, c) ==
    IF a = <<>> THEN <<>>
    ELSE LET p == Head(a) * m + c
         IN  <<p % Base>> \o MulC(Tail(a), m, p \div Base)

\* wrapping multiplication of two words of equal length (schoolbook, low half)
RECURSIVE MulW(_, _)
MulW(a, b) ==
    IF b = <<>> THEN [i \in 1..Len(a) |-> 0]
    ELSE LET rest == MulW(a, Tail(b))
         IN  AddW(MulC(a, Head(b), 0), SubSeq(<<0>> \o rest, 1, Len(a)))

\* unsigned division of a word by a positive integer d < 2^27:
\* <<quotient word, remainder>>, long division four bits at a time
RECURSIVE DivMod(_, _)
DivMod(a, d) ==
    IF a = <<>> THEN <<<<>>, 0>>
    ELSE LET hi == DivMod(Tail(a), d)
             c1 == hi[2] * 16 + (Head(a) \div 16)
             c2 == (c1 % d) * 16 + (Head(a) % 16)
         IN  <<<<(c1 \div d) * 16 + (c2 \div d)>> \o hi[1], c2 % d>>

\* unsigned `a / d`
DivU(a, d) == DivMod(a, d)[1]

\* unsigned `a % d`, as a word of the same size
ModU(a, d) == Limbs(DivMod(a, d)[2], Len(a))

\* unsigned comparison a < b of words of equal length
RECURSIVE LtU(_, _)
LtU(a, b) ==
    IF a = <<>> THEN FALSE
    ELSE \/ LtU(Tail(a), Tail(b))
         \/ Tail(a) = Tail(b) /\ Head(a) < Head(b)

\* signed comparison a <= b of two's complement words of equal length
LeS(a, b) ==
    LET flip(w) == [w EXCEPT ![Len(w)] = (w[Len(w)] + 128) % Base]
    IN  ~LtU(flip(b), flip(a))

\* logical shift right by s bits
Shr(w, s) == DivU(ShrLimbs(w, s \div 8), 2^(s % 8))

\* bitwise operations on non-negative integers
RECURSIVE BitAnd(_, _)
BitAnd(a, b) ==
    IF a = 0 \/ b = 0 THEN 0
    ELSE (a % 2) * (b % 2) + 2 * BitAnd(a \div 2, b \div 2)

RECURSIVE BitOr(_, _)
BitOr(a, b) ==
    IF a = 0 THEN b
    ELSE IF b = 0 THEN a
    ELSE (IF a % 2 = 1 \/ b % 2 = 1 THEN 1 ELSE 0) + 2 * BitOr(a \div 2, b \div 2)

RECURSIVE BitXor(_, _)
BitXor(a, b) ==
    IF a = 0 THEN b
    ELSE IF b = 0 THEN a
    ELSE ((a + b) % 2) + 2 * BitXor(a \div 2, b \div 2)

\* bitwise and / or of two words of equal length
AndW(a, b) == [i \in 1..Len(a) |-> BitAnd(a[i], b[i])]
OrW(a, b) == [i \in 1..Len(a) |-> BitOr(a[i], b[i])]

\* wrapping i32 arithmetic on integers
I32Add(a, b) == I32Val(AddW(W32(a), W32(b)))
I32Sub(a, b) == I32Val(SubW(W32(a), W32(b)))
I32Mul(a, b) == I32Val(MulW(W32(a), W32(b)))

\* Overflow of the checked arithmetic of a build with debug assertions
\* (`+`, `-`, `*` panic when the result does not fit the type).
\* u32 operands are 4-limb words, i32 operands are integers.
OvAddU(a, b) == LtU(AddW(a, b), a)
OvSubU(a, b) == LtU(a, b)
OvMulU(a, b) == ShrLimbs(MulW(ZExt(a, 8), ZExt(b, 8)), 4) # I64(0)
OvAddI(a, b) == AddW(I64(a), I64(b)) # SExt(AddW(W32(a), W32(b)), 8)
OvSubI(a, b) == SubW(I64(a), I64(b)) # SExt(SubW(W32(a), W32(b)), 8)

\* Rust's `/` and `%` on signed integers truncate toward zero (b > 0; the
\* remainder has the sign of a)
RemT(a, b) == IF a < 0 /\ a % b # 0 THEN (a % b) - b ELSE a % b
DivT(a, b) == (a - RemT(a, b)) \div b

---------------------------------------------------------------------------
(* Constants of lib.rs.                                                    *)

ERA_OFFSET == 3670
DAYS_IN_ERA == 146097
YEARS_IN_ERA == 400
DAYS_TO_UNIX_EPOCH == 719468
DAY_OFFSET == ERA_OFFSET * DAYS_IN_ERA + DAYS_TO_UNIX_EPOCH
YEAR_OFFSET == ERA_OFFSET * YEARS_IN_ERA
SECS_IN_DAY == 86400
\* DAY_OFFSET as i64 * SECS_IN_DAY
SECS_OFFSET == MulW(I64(DAY_OFFSET), I64(SECS_IN_DAY))

YEAR_MIN == -1467999
YEAR_MAX == 1471744

WEEK_MIN == 1
WEEK_MAX == 53
MONTH_MIN == 1
MONTH_MAX == 12
DAY_MIN == 1
DAY_MAX == 31
WEEKDAY_MIN == 1
WEEKDAY_MAX == 7
HOUR_MIN == 0
HOUR_MAX == 23
MINUTE_MIN == 0
MINUTE_MAX == 59
SECOND_MIN == 0
SECOND_MAX == 59
NANOSECOND_MIN == 0
NANOSECOND_MAX == 999999999
WEDNESDAY == 3
THURSDAY == 4

---------------------------------------------------------------------------
(* Leap year and month length.                                             *)

\* mutant of is_leap_year: the years divisible by 25 are tested with the mask 7
is_leap_year_mask_7(y) ==
    IF RemT(y, 25) # 0
    THEN AndW(W32(y), W32(3)) = W32(0)                   \* y & 3 == 0
    ELSE AndW(W32(y), W32(7)) = W32(0)                   \* y & 7 == 0

\* is_leap_year(y: i32) -> bool
is_leap_year(y) ==
    IF RemT(y, 25) # 0
    THEN AndW(W32(y), W32(3)) = W32(0)                   \* y & 3 == 0
    ELSE AndW(W32(y), W32(15)) = W32(0)                  \* y & 15 == 0

\* debug_assert of is_leap_year
is_leap_year_assert(y) == y >= YEAR_MIN /\ y <= YEAR_MAX

\* mutant of days_in_month: the month is not folded with its bit 3
days_in_month_no_shift(y, m) ==
    IF m # 2 THEN BitOr(30, m)                           \* 30 | m
    ELSE IF is_leap_year(y) THEN 29
    ELSE 28

\* days_in_month(y: i32, m: u8) -> u8
days_in_month(y, m) ==
    IF m # 2 THEN BitOr(30, BitXor(m, m \div 8))         \* 30 | (m ^ (m >> 3))
    ELSE IF is_leap_year(y) THEN 29
    ELSE 28

\* debug_assert of days_in_month, and that of is_leap_year, which February calls
days_in_month_assert(y, m) ==
    /\ m >= MONTH_MIN /\ m <= MONTH_MAX
    /\ m = 2 => is_leap_year_assert(y)

---------------------------------------------------------------------------
(* Date/RataDie codec.                                                     *)

\* bool as u32
BoolU32(b) == IF b THEN W32(1) ELSE W32(0)

\* mutant of rd_to_date: the shifted month 13 or 14 is not mapped back to 1 or 2
rd_to_date_no_month_map(n) ==
    LET n0 == AddW(W32(n), W32(DAY_OFFSET))              \* (n + DAY_OFFSET) as u32
        \* century
        n1 == AddW(MulW(W32(4), n0), W32(3))             \* 4 * n + 3
        c  == DivU(n1, 146097)
        r  == ModU(n1, 146097)
        \* year
        n2 == OrW(r, W32(3))                             \* r | 3
        p  == MulW(I64(2939745), ZExt(n2, 8))            \* 2939745 * n as u64
        z  == Trunc(ShrLimbs(p, 4), 4)                   \* (p / 2^32) as u32
        n3 == DivU(DivU(Trunc(p, 4), 2939745), 4)        \* (p % 2^32) as u32 / 2939745 / 4
        j  == ~LtU(n3, W32(306))                         \* n >= 306
        y  == AddW(AddW(MulW(W32(100), c), z), BoolU32(j))
        \* month and day
        n4 == AddW(MulW(W32(2141), n3), W32(197913))
        m  == ShrLimbs(n4, 2)                            \* n / 2^16
        d  == DivU(ZExt(Trunc(n4, 2), 4), 2141)          \* n % 2^16 / 2141
        \* map
        y2 == SubW(y, W32(YEAR_OFFSET))                  \* (y as i32) - YEAR_OFFSET
        m2 == m
        d2 == AddW(d, W32(1))
    IN  <<I32Val(y2), U8Val(m2), U8Val(d2)>>

\* mutant of rd_to_date: the day of the month is left zero-based
rd_to_date_zero_based_day(n) ==
    LET n0 == AddW(W32(n), W32(DAY_OFFSET))              \* (n + DAY_OFFSET) as u32
        \* century
        n1 == AddW(MulW(W32(4), n0), W32(3))             \* 4 * n + 3
        c  == DivU(n1, 146097)
        r  == ModU(n1, 146097)
        \* year
        n2 == OrW(r, W32(3))                             \* r | 3
        p  == MulW(I64(2939745), ZExt(n2, 8))            \* 2939745 * n as u64
        z  == Trunc(ShrLimbs(p, 4), 4)                   \* (p / 2^32) as u32
        n3 == DivU(DivU(Trunc(p, 4), 2939745), 4)        \* (p % 2^32) as u32 / 2939745 / 4
        j  == ~LtU(n3, W32(306))                         \* n >= 306
        y  == AddW(AddW(MulW(W32(100), c), z), BoolU32(j))
        \* month and day
        n4 == AddW(MulW(W32(2141), n3), W32(197913))
        m  == ShrLimbs(n4, 2)                            \* n / 2^16
        d  == DivU(ZExt(Trunc(n4, 2), 4), 2141)          \* n % 2^16 / 2141
        \* map
        y2 == SubW(y, W32(YEAR_OFFSET))                  \* (y as i32) - YEAR_OFFSET
        m2 == IF j THEN SubW(m, W32(12)) ELSE m
        d2 == d
    IN  <<I32Val(y2), U8Val(m2), U8Val(d2)>>

\* rd_to_date(n: i32) -> (i32, u8, u8), the arithmetic path of every build
rd_to_date(n) ==
    LET n0 == AddW(W32(n), W32(DAY_OFFSET))              \* (n + DAY_OFFSET) as u32
        \* century
        n1 == AddW(MulW(W32(4), n0), W32(3))             \* 4 * n + 3
        c  == DivU(n1, 146097)
        r  == ModU(n1, 146097)
        \* year
        n2 == OrW(r, W32(3))                             \* r | 3
        p  == MulW(I64(2939745), ZExt(n2, 8))            \* 2939745 * n as u64
        z  == Trunc(ShrLimbs(p, 4), 4)                   \* (p / 2^32) as u32
        n3 == DivU(DivU(Trunc(p, 4), 2939745), 4)        \* (p % 2^32) as u32 / 2939745 / 4
        j  == ~LtU(n3, W32(306))                         \* n >= 306
        y  == AddW(AddW(MulW(W32(100), c), z), BoolU32(j))
        \* month and day
        n4 == AddW(MulW(W32(2141), n3), W32(197913))
        m  == ShrLimbs(n4, 2)                            \* n / 2^16
        d  == DivU(ZExt(Trunc(n4, 2), 4), 2141)          \* n % 2^16 / 2141
        \* map
        y2 == SubW(y, W32(YEAR_OFFSET))                  \* (y as i32) - YEAR_OFFSET
        m2 == IF j THEN SubW(m, W32(12)) ELSE m
        d2 == AddW(d, W32(1))
    IN  <<I32Val(y2), U8Val(m2), U8Val(d2)>>

\* date_to_internal(y, m, d) -> (c, y, m, d) as u32 words
date_to_internal(y, m, d) ==
    LET y0 == AddW(W32(y), W32(YEAR_OFFSET))             \* (y + YEAR_OFFSET) as u32
        jf == IF m < 3 THEN 1 ELSE 0                     \* (m < 3) as u32
        \* year
        y1 == SubW(y0, W32(jf))
        \* century
        c  == DivU(y1, 100)
        \* month
        m1 == AddW(W32(m), MulW(W32(12), W32(jf)))
        \* day
        d1 == W32(d)
    IN  <<c, y1, m1, d1>>

\* a step of date_to_internal overflows: y + YEAR_OFFSET or y - jf (the other
\* steps, y / 100 and m as u32 + 12 * jf, fit for every input)
date_to_internal_overflows(y, m, d) ==
    \/ OvAddI(y, YEAR_OFFSET)
    \/ OvSubU(W32(y + YEAR_OFFSET), W32(IF m < 3 THEN 1 ELSE 0))

\* the debug_asserts of date_to_internal
date_to_internal_assert(y, m, d) ==
    /\ y >= YEAR_MIN /\ y <= YEAR_MAX
    /\ m >= MONTH_MIN /\ m <= MONTH_MAX
    /\ d >= DAY_MIN /\ d <= days_in_month(y, m)

\* mutant of date_to_rd: the month term uses the constant of date_to_weekday
date_to_rd_weekday_month(date) ==
    LET t  == date_to_internal(date[1], date[2], date[3])
        c  == t[1]
        d  == SubW(t[4], W32(1))
        \* year
        y  == AddW(SubW(DivU(MulW(W32(1461), t[2]), 4), c), DivU(c, 4))
        \* month
        m  == DivU(SubW(MulW(W32(979), t[3]), W32(2855)), 32)
        \* result
        n  == AddW(AddW(y, m), d)
    IN  I32Val(SubW(n, W32(DAY_OFFSET)))                 \* (n as i32) - DAY_OFFSET

\* mutant of date_to_rd: the year term is 5844 * y / 16, which equals
\* 1461 * y / 4 over the integers
date_to_rd_scaled_year(date) ==
    LET t  == date_to_internal(date[1], date[2], date[3])
        c  == t[1]
        d  == SubW(t[4], W32(1))
        \* year
        y  == AddW(SubW(DivU(MulW(W32(5844), t[2]), 16), c), DivU(c, 4))
        \* month
        m  == DivU(SubW(MulW(W32(979), t[3]), W32(2919)), 32)
        \* result
        n  == AddW(AddW(y, m), d)
    IN  I32Val(SubW(n, W32(DAY_OFFSET)))                 \* (n as i32) - DAY_OFFSET

\* date_to_rd((y, m, d)) -> i32
date_to_rd(date) ==
    LET t  == date_to_internal(date[1], date[2], date[3])
        c  == t[1]
        d  == SubW(t[4], W32(1))
        \* year
        y  == AddW(SubW(DivU(MulW(W32(1461), t[2]), 4), c), DivU(c, 4))
        \* month
        m  == DivU(SubW(MulW(W32(979), t[3]), W32(2919)), 32)
        \* result
        n  == AddW(AddW(y, m), d)
    IN  I32Val(SubW(n, W32(DAY_OFFSET)))                 \* (n as i32) - DAY_OFFSET

date_to_rd_assert(date) == date_to_internal_assert(date[1], date[2], date[3])

\* a step of date_to_rd overflows: d - 1, 1461 * y, 1461 * y / 4 - c,
\* ... + c / 4, y + m, ... + d, (n as i32) - DAY_OFFSET (979 * m - 2919 fits
\* for every input, m being in 3..267)
date_to_rd_year_overflows(c, y) ==
    \/ OvMulU(W32(1461), y)
    \/ OvSubU(DivU(MulW(W32(1461), y), 4), c)
    \/ OvAddU(SubW(DivU(MulW(W32(1461), y), 4), c), DivU(c, 4))

date_to_rd_sum_overflows(y, m, d) ==
    \/ OvAddU(y, m)
    \/ OvAddU(AddW(y, m), d)
    \/ OvSubI(I32Val(AddW(AddW(y, m), d)), DAY_OFFSET)

date_to_rd_steps_overflow(t) ==
    \/ OvSubU(t[4], W32(1))
    \/ date_to_rd_year_overflows(t[1], t[2])
    \/ date_to_rd_sum_overflows(AddW(SubW(DivU(MulW(W32(1461), t[2]), 4), t[1]), DivU(t[1], 4)),
                                DivU(SubW(MulW(W32(979), t[3]), W32(2919)), 32),
                                SubW(t[4], W32(1)))

date_to_rd_overflows(date) ==
    \/ date_to_internal_overflows(date[1], date[2], date[3])
    \/ date_to_rd_steps_overflow(date_to_internal(date[1], date[2], date[3]))

\* the values of the const items `date_to_rd((YEAR_MIN, 1, 1))` and
\* `date_to_rd((YEAR_MAX, 12, 31))`, which the compiler evaluates
RD_MIN == -536895152
RD_MAX == 536824295
\* RD_MIN as i64 * SECS_IN_DAY
RD_SECONDS_MIN == MulW(I64(RD_MIN), I64(SECS_IN_DAY))
\* RD_MAX as i64 * SECS_IN_DAY + SECS_IN_DAY - 1
RD_SECONDS_MAX == SubW(AddW(MulW(I64(RD_MAX), I64(SECS_IN_DAY)), I64(SECS_IN_DAY)), I64(1))

\* the debug_assert of rd_to_date
rd_to_date_assert(n) == n >= RD_MIN /\ n <= RD_MAX

\* a step of rd_to_date overflows: n + DAY_OFFSET, 4 * n, ... + 3 (the later
\* steps work on c < 2^15, r < 146097 and n < 366 and fit for every input)
rd_to_date_overflows(n) ==
    \/ OvAddI(n, DAY_OFFSET)
    \/ OvMulU(W32(4), AddW(W32(n), W32(DAY_OFFSET)))
    \/ OvAddU(MulW(W32(4), AddW(W32(n), W32(DAY_OFFSET))), W32(3))

---------------------------------------------------------------------------
(* Weekday engine.                                                         *)

\* ((1 << 63) / 7) << 1
P64_OVER_SEVEN == MulW(DivU(<<0, 0, 0, 0, 0, 0, 0, 128>>, 7), I64(2))

\* ((1 << 31) / 7) << 1
P32_OVER_SEVEN == MulW(DivU(<<0, 0, 0, 128>>, 7), W32(2))

\* mutant of rd_to_weekday: the day number is multiplied without adding 1
rd_to_weekday_no_plus_one(n) ==
    LET m == SExt(SubW(W32(n), W32(RD_MIN)), 8)          \* (n - RD_MIN) as u64
    IN  U8Val(Shr(MulW(m, P64_OVER_SEVEN), 61))

\* rd_to_weekday(n: i32) -> u8
rd_to_weekday(n) ==
    LET m == SExt(SubW(W32(n), W32(RD_MIN)), 8)          \* (n - RD_MIN) as u64
    IN  U8Val(Shr(MulW(AddW(m, I64(1)), P64_OVER_SEVEN), 61))

rd_to_weekday_assert(n) == n >= RD_MIN /\ n <= RD_MAX

\* a step of rd_to_weekday overflows: n - RD_MIN, or ... as u64 + 1 (the
\* multiplication is a wrapping_mul)
rd_to_weekday_overflows(n) ==
    \/ OvSubI(n, RD_MIN)
    \/ SExt(SubW(W32(n), W32(RD_MIN)), 8) = I64(-1)

\* mutant of date_to_weekday: the month term uses the constant of date_to_rd
date_to_weekday_rd_month(date) ==
    LET t  == date_to_internal(date[1], date[2], date[3])
        c  == t[1]
        \* year
        y  == AddW(SubW(DivU(MulW(W32(5), t[2]), 4), c), DivU(c, 4))
        \* month
        m  == DivU(SubW(MulW(W32(979), t[3]), W32(2919)), 32)
        \* result
        n  == AddW(AddW(y, m), t[4])
    IN  U8Val(Shr(MulW(n, P32_OVER_SEVEN), 29))

\* date_to_weekday((y, m, d)) -> u8
date_to_weekday(date) ==
    LET t  == date_to_internal(date[1], date[2], date[3])
        c  == t[1]
        \* year
        y  == AddW(SubW(DivU(MulW(W32(5), t[2]), 4), c), DivU(c, 4))
        \* month
        m  == DivU(SubW(MulW(W32(979), t[3]), W32(2855)), 32)
        \* result
        n  == AddW(AddW(y, m), t[4])
    IN  U8Val(Shr(MulW(n, P32_OVER_SEVEN), 29))

date_to_weekday_assert(date) == date_to_internal_assert(date[1], date[2], date[3])

\* mutant of next_date: December is not rolled over into the next year
next_date_month_le(date) ==
    LET y == date[1]
        m == date[2]
        d == date[3]
    IN  IF d < 28 \/ d < days_in_month(y, m) THEN <<y, m, (d + 1) % Base>>
        ELSE IF m <= 12 THEN <<y, (m + 1) % Base, 1>>
        ELSE <<I32Add(y, 1), 1, 1>>

\* next_date((y, m, d)) -> (i32, u8, u8), the arithmetic path of every build
next_date(date) ==
    LET y == date[1]
        m == date[2]
        d == date[3]
    IN  IF d < 28 \/ d < days_in_month(y, m) THEN <<y, m, (d + 1) % Base>>
        ELSE IF m < 12 THEN <<y, (m + 1) % Base, 1>>
        ELSE <<I32Add(y, 1), 1, 1>>

\* mutant of next_date_assert: the last date of the range is not rejected
next_date_assert_no_max(date) ==
    /\ date[1] >= YEAR_MIN /\ date[1] <= YEAR_MAX
    /\ date[2] >= MONTH_MIN /\ date[2] <= MONTH_MAX
    /\ date[3] >= DAY_MIN /\ date[3] <= days_in_month(date[1], date[2])

\* the debug_asserts of next_date
next_date_assert(date) ==
    /\ date[1] >= YEAR_MIN /\ date[1] <= YEAR_MAX
    /\ date[2] >= MONTH_MIN /\ date[2] <= MONTH_MAX
    /\ date[3] >= DAY_MIN /\ date[3] <= days_in_month(date[1], date[2])
    /\ (date[1] # YEAR_MAX \/ date[2] # MONTH_MAX \/ date[3] # DAY_MAX)

\* prev_date((y, m, d)) -> (i32, u8, u8)
prev_date(date) ==
    LET y == date[1]
        m == date[2]
        d == date[3]
    IN  IF d > 1 THEN <<y, m, d - 1>>
        ELSE IF m > 1 THEN <<y, m - 1, days_in_month(y, m - 1)>>
        ELSE <<I32Sub(y, 1), 12, 31>>

\* the debug_asserts of prev_date
prev_date_assert(date) ==
    /\ date[1] >= YEAR_MIN /\ date[1] <= YEAR_MAX
    /\ date[2] >= MONTH_MIN /\ date[2] <= MONTH_MAX
    /\ date[3] >= DAY_MIN /\ date[3] <= days_in_month(date[1], date[2])
    /\ (date[1] # YEAR_MIN \/ date[2] # MONTH_MIN \/ date[3] # DAY_MIN)

---------------------------------------------------------------------------
(* Time-of-day splitter.                                                   *)

\* the i64 value hi * 10^9 + lo, for literals beyond 32 bits
I64Dec(hi, lo) == AddW(MulW(I64(hi), I64(10^9)), I64(lo))

\* the bound of the identities of the split by 60: n in [0, 97612919[
SPLIT_LIMIT == 97612919

\* mutant of split60: the reciprocal of 60 is truncated instead of rounded up
split60_truncated_magic(n) ==
    LET prd == MulW(I64(71582788), n)
    IN  <<ShrLimbs(prd, 4), DivU(Trunc(prd, 4), 71582789)>>

\* the split of a u64 n by 60 without division, as secs_to_dhms does it for
\* the seconds and then for the minutes: (prd >> 32, (prd as u32) / 71582789)
\* with prd = 71582789 * n
split60(n) ==
    LET prd == MulW(I64(71582789), n)
    IN  <<ShrLimbs(prd, 4), DivU(Trunc(prd, 4), 71582789)>>

\* mutant of secs_to_dhms: the day count is not re-centred on the epoch
secs_to_dhms_no_day_offset(secs) ==
    LET s0   == IF ~LeS(secs, RD_SECONDS_MAX) THEN I64(0) ELSE secs
        s1   == AddW(s0, SECS_OFFSET)                    \* (secs + SECS_OFFSET) as u64
        days == Trunc(DivU(s1, SECS_IN_DAY), 4)          \* (secs / SECS_IN_DAY) as u32
        s2   == ModU(s1, SECS_IN_DAY)
        prd  == MulW(I64(71582789), s2)
        mins == ShrLimbs(prd, 4)                         \* secs / 60
        ss   == DivU(Trunc(prd, 4), 71582789)            \* secs % 60
        prd2 == MulW(I64(71582789), mins)
        hh   == ShrLimbs(prd2, 4)                        \* mins / 60
        mm   == DivU(Trunc(prd2, 4), 71582789)           \* mins % 60
    IN  <<I32Val(days), U8Val(hh), U8Val(mm), U8Val(ss)>>

\* mutant of secs_to_dhms: the reciprocal of 60 is truncated instead of rounded up
secs_to_dhms_truncated_magic(secs) ==
    LET s0   == IF ~LeS(secs, RD_SECONDS_MAX) THEN I64(0) ELSE secs
        s1   == AddW(s0, SECS_OFFSET)                    \* (secs + SECS_OFFSET) as u64
        days == Trunc(DivU(s1, SECS_IN_DAY), 4)          \* (secs / SECS_IN_DAY) as u32
        s2   == ModU(s1, SECS_IN_DAY)
        prd  == MulW(I64(71582788), s2)
        mins == ShrLimbs(prd, 4)                         \* secs / 60
        ss   == DivU(Trunc(prd, 4), 71582789)            \* secs % 60
        prd2 == MulW(I64(71582789), mins)
        hh   == ShrLimbs(prd2, 4)                        \* mins / 60
        mm   == DivU(Trunc(prd2, 4), 71582789)           \* mins % 60
    IN  <<I32Val(SubW(days, W32(DAY_OFFSET))), U8Val(hh), U8Val(mm), U8Val(ss)>>

\* mutant of secs_to_dhms: seconds beyond RD_SECONDS_MAX are not replaced by 0,
\* the offset-and-divide computation is applied to secs itself
secs_to_dhms_unclamped(secs) ==
    LET s0   == secs
        s1   == AddW(s0, SECS_OFFSET)                    \* (secs + SECS_OFFSET) as u64
        days == Trunc(DivU(s1, SECS_IN_DAY), 4)          \* (secs / SECS_IN_DAY) as u32
        s2   == ModU(s1, SECS_IN_DAY)
        prd  == MulW(I64(71582789), s2)
        mins == ShrLimbs(prd, 4)                         \* secs / 60
        ss   == DivU(Trunc(prd, 4), 71582789)            \* secs % 60
        prd2 == MulW(I64(71582789), mins)
        hh   == ShrLimbs(prd2, 4)                        \* mins / 60
        mm   == DivU(Trunc(prd2, 4), 71582789)           \* mins % 60
    IN  <<I32Val(SubW(days, W32(DAY_OFFSET))), U8Val(hh), U8Val(mm), U8Val(ss)>>

\* secs_to_dhms(secs: i64) -> (i32, u8, u8, u8)
secs_to_dhms(secs) ==
    LET s0   == IF ~LeS(secs, RD_SECONDS_MAX) THEN I64(0) ELSE secs
        s1   == AddW(s0, SECS_OFFSET)                    \* (secs + SECS_OFFSET) as u64
        days == Trunc(DivU(s1, SECS_IN_DAY), 4)          \* (secs / SECS_IN_DAY) as u32
        s2   == ModU(s1, SECS_IN_DAY)
        prd  == MulW(I64(71582789), s2)
        mins == ShrLimbs(prd, 4)                         \* secs / 60
        ss   == DivU(Trunc(prd, 4), 71582789)            \* secs % 60
        prd2 == MulW(I64(71582789), mins)
        hh   == ShrLimbs(prd2, 4)                        \* mins / 60
        mm   == DivU(Trunc(prd2, 4), 71582789)           \* mins % 60
    IN  <<I32Val(SubW(days, W32(DAY_OFFSET))), U8Val(hh), U8Val(mm), U8Val(ss)>>

secs_to_dhms_assert(secs) == LeS(RD_SECONDS_MIN, secs) /\ LeS(secs, RD_SECONDS_MAX)

\* dhms_to_secs((d, h, m, s)) -> i64
dhms_to_secs(t) ==
    IF t[1] >= RD_MIN /\ t[1] <= RD_MAX
    THEN AddW(AddW(AddW(MulW(I64(t[1]), I64(SECS_IN_DAY)),
                        MulW(I64(t[2]), I64(3600))),
                   MulW(I64(t[3]), I64(60))),
              I64(t[4]))
    ELSE I64(0)

dhms_to_secs_assert(t) ==
    /\ t[1] >= RD_MIN /\ t[1] <= RD_MAX
    /\ t[2] >= HOUR_MIN /\ t[2] <= HOUR_MAX
    /\ t[3] >= MINUTE_MIN /\ t[3] <= MINUTE_MAX
    /\ t[4] >= SECOND_MIN /\ t[4] <= SECOND_MAX

\* secs_to_datetime(secs) -> (y, m, d, hh, mm, ss)
secs_to_datetime(secs) ==
    LET t == secs_to_dhms(secs)
        date == rd_to_date(t[1])
    IN  <<date[1], date[2], date[3], t[2], t[3], t[4]>>

secs_to_datetime_assert(secs) ==
    secs_to_dhms_assert(secs) /\ rd_to_date_assert(secs_to_dhms(secs)[1])

\* mutant of datetime_to_secs: the fields of the time of day are passed in
\* reverse order
datetime_to_secs_reversed_time(dt) ==
    LET days == date_to_rd(<<dt[1], dt[2], dt[3]>>)
    IN  dhms_to_secs(<<days, dt[6], dt[5], dt[4]>>)

\* datetime_to_secs((y, m, d, hh, mm, ss)) -> i64
datetime_to_secs(dt) ==
    LET days == date_to_rd(<<dt[1], dt[2], dt[3]>>)
    IN  dhms_to_secs(<<days, dt[4], dt[5], dt[6]>>)

datetime_to_secs_assert(dt) ==
    /\ date_to_rd_assert(<<dt[1], dt[2], dt[3]>>)
    /\ dhms_to_secs_assert(<<date_to_rd(<<dt[1], dt[2], dt[3]>>), dt[4], dt[5], dt[6]>>)

---------------------------------------------------------------------------
(* ISO week engine.                                                        *)

\* mutant of isoweeks_in_year: a year starting on a Wednesday has 53 weeks, leap or not
isoweeks_in_year_any_wednesday(y) ==
    LET wd == date_to_weekday(<<y, 1, 1>>)
        l  == is_leap_year(y)
    IN  IF wd = THURSDAY THEN 53
        ELSE IF wd = WEDNESDAY THEN 53
        ELSE 52

\* mutant of isoweeks_in_year: a leap year starting on a Wednesday is given 52 weeks
isoweeks_in_year_thursday_only(y) ==
    LET wd == date_to_weekday(<<y, 1, 1>>)
        l  == is_leap_year(y)
    IN  IF wd = THURSDAY THEN 53
        ELSE 52

\* isoweeks_in_year(y: i32) -> u8
isoweeks_in_year(y) ==
    LET wd == date_to_weekday(<<y, 1, 1>>)
        l  == is_leap_year(y)
    IN  IF wd = THURSDAY THEN 53
        ELSE IF wd = WEDNESDAY /\ l THEN 53
        ELSE 52

isoweeks_in_year_assert(y) == y >= YEAR_MIN /\ y <= YEAR_MAX

\* mutant of rd_to_isoweekdate: the ISO year is taken from the day itself, not from the Thursday of its week
rd_to_isoweekdate_year_of_day(rd) ==
    LET wd  == rd_to_weekday(rd)
        rdt == I32Add(rd, RemT(4 - wd, 7))               \* rd + (4 - wd as i32) % 7
        y   == rd_to_date(rd)[1]
        ys  == date_to_rd(<<y, 1, 1>>)
        w   == I32Add(DivT(I32Sub(rdt, ys), 7), 1)       \* (rdt - ys) / 7 + 1
    IN  <<y, w % Base, wd>>

\* mutant of rd_to_isoweekdate: the day is shifted to the Wednesday of its week
rd_to_isoweekdate_wednesday(rd) ==
    LET wd  == rd_to_weekday(rd)
        rdt == I32Add(rd, RemT(3 - wd, 7))
        y   == rd_to_date(rdt)[1]
        ys  == date_to_rd(<<y, 1, 1>>)
        w   == I32Add(DivT(I32Sub(rdt, ys), 7), 1)       \* (rdt - ys) / 7 + 1
    IN  <<y, w % Base, wd>>

\* mutant of rd_to_isoweekdate: weeks are counted from the year's first
\* day, not from the Monday of the week of its first Thursday
rd_to_isoweekdate_weeks_of_days(rd) ==
    LET wd  == rd_to_weekday(rd)
        rdt == I32Add(rd, RemT(4 - wd, 7))               \* rd + (4 - wd as i32) % 7
        y   == rd_to_date(rdt)[1]
        ys  == date_to_rd(<<y, 1, 1>>)
        w   == I32Add(DivT(I32Sub(rd, ys), 7), 1)
    IN  <<y, w % Base, wd>>

\* rd_to_isoweekdate(rd: i32) -> (i32, u8, u8)
rd_to_isoweekdate(rd) ==
    LET wd  == rd_to_weekday(rd)
        rdt == I32Add(rd, RemT(4 - wd, 7))               \* rd + (4 - wd as i32) % 7
        y   == rd_to_date(rdt)[1]
        ys  == date_to_rd(<<y, 1, 1>>)
        w   == I32Add(DivT(I32Sub(rdt, ys), 7), 1)       \* (rdt - ys) / 7 + 1
    IN  <<y, w % Base, wd>>

rd_to_isoweekdate_assert(rd) ==
    /\ rd >= RD_MIN /\ rd <= RD_MAX
    /\ rd_to_weekday_assert(rd)
    /\ rd_to_date_assert(I32Add(rd, RemT(4 - rd_to_weekday(rd), 7)))
    /\ date_to_rd_assert(<<rd_to_isoweekdate(rd)[1], 1, 1>>)

\* isoweekdate_to_rd((y, w, d)) -> i32
isoweekdate_to_rd(t) ==
    LET rd4 == date_to_rd(<<t[1], 1, 4>>)
        wd4 == rd_to_weekday(rd4)
        ys  == I32Sub(rd4, (wd4 - 1) % Base)             \* rd4 - (wd4 - 1) as i32
    IN  I32Add(I32Add(ys, I32Mul(t[2] - 1, 7)), t[3] - 1)

isoweekdate_to_rd_assert(t) ==
    /\ t[1] >= YEAR_MIN /\ t[1] <= YEAR_MAX
    /\ t[2] >= WEEK_MIN /\ t[2] <= isoweeks_in_year(t[1])
    /\ t[3] >= WEEKDAY_MIN /\ t[3] <= WEEKDAY_MAX
    /\ (t[1] # YEAR_MAX \/ t[2] # WEEK_MAX \/ t[3] <= THURSDAY)
    /\ date_to_rd_assert(<<t[1], 1, 4>>)
    /\ rd_to_weekday_assert(date_to_rd(<<t[1], 1, 4>>))

\* date_to_isoweekdate((y, m, d)) -> (i32, u8, u8)
date_to_isoweekdate(date) == rd_to_isoweekdate(date_to_rd(date))

date_to_isoweekdate_assert(date) ==
    date_to_rd_assert(date) /\ rd_to_isoweekdate_assert(date_to_rd(date))

\* isoweekdate_to_date((y, w, d)) -> (i32, u8, u8)
isoweekdate_to_date(t) == rd_to_date(isoweekdate_to_rd(t))

isoweekdate_to_date_assert(t) ==
    isoweekdate_to_rd_assert(t) /\ rd_to_date_assert(isoweekdate_to_rd(t))

---------------------------------------------------------------------------
(* Timestamps.  std::time::Duration is (secs: u64, nanos: u32 < 10^9), a   *)
(* SystemTime of a Unix host is a timespec (tv_sec: i64, tv_nsec: u32 <    *)
(* 10^9) denoting tv_sec * 10^9 + tv_nsec nanoseconds from the epoch.      *)
(* An Option is <<"None">> or <<"Some", v>>.                               *)

None == <<"None">>
Some(v) == <<"Some", v>>

\* the literal 1_000_000_000
NANOS_PER_SEC == 10^9

\* nanos / 1_000_000_000 of a u32: 0..4
NanosCarry(nanos) ==
    Cardinality({j \in 1..4 : ~LtU(nanos, MulW(W32(NANOS_PER_SEC), W32(j)))})

\* Duration::new(secs, nanos) panics when the carry of the nanoseconds
\* overflows the seconds
DurationNewPanics(secs, nanos) ==
    LtU(AddW(secs, I64(NanosCarry(nanos))), secs)

\* Duration::new(secs: u64, nanos: u32)
DurationNew(secs, nanos) ==
    <<AddW(secs, I64(NanosCarry(nanos))),
      SubW(nanos, MulW(W32(NANOS_PER_SEC), W32(NanosCarry(nanos))))>>

\* Duration::from_secs(secs: u64)
DurationFromSecs(secs) == <<secs, W32(0)>>

UNIX_EPOCH == <<I64(0), W32(0)>>

\* UNIX_EPOCH.checked_add(dur): None when the seconds do not fit in i64
EpochCheckedAdd(dur) ==
    IF dur[1][8] >= 128 THEN None ELSE Some(<<dur[1], dur[2]>>)

\* UNIX_EPOCH.checked_sub(dur): the nanoseconds are borrowed from the
\* seconds; None when the seconds do not fit in i64
EpochCheckedSub(dur) ==
    LET secs == SubW(I64(0), dur[1])
    IN  IF LtU(<<0, 0, 0, 0, 0, 0, 0, 128>>, dur[1]) THEN None
        ELSE IF dur[2] = W32(0) THEN Some(<<secs, W32(0)>>)
        ELSE IF dur[1] = <<0, 0, 0, 0, 0, 0, 0, 128>> THEN None
        ELSE Some(<<SubW(secs, I64(1)), SubW(W32(NANOS_PER_SEC), dur[2])>>)

\* st.duration_since(UNIX_EPOCH): Ok(st - epoch), or Err(epoch - st) when
\* st is before the epoch
DurationSinceEpoch(st) ==
    IF st[1][8] < 128 THEN <<"Ok", <<st[1], st[2]>>>>
    ELSE IF st[2] = W32(0) THEN <<"Err", <<SubW(I64(0), st[1]), W32(0)>>>>
    ELSE <<"Err", <<SubW(SubW(I64(0), st[1]), I64(1)), SubW(W32(NANOS_PER_SEC), st[2])>>>>

\* mutant of systemtime_to_secs: before the epoch, a fraction of a second is
\* complemented without carrying into the seconds
systemtime_to_secs_no_carry(st) ==
    LET ds  == DurationSinceEpoch(st)
        dur == ds[2]
    IN  IF ds[1] = "Ok"
        THEN LET secs  == dur[1]                         \* dur.as_secs()
                 nsecs == dur[2]                         \* dur.subsec_nanos()
             IN  IF LtU(RD_SECONDS_MAX, secs) THEN None  \* secs > RD_SECONDS_MAX as u64
                 ELSE Some(<<secs, nsecs>>)
        ELSE LET adj   == LtU(W32(0), dur[2])            \* nsecs > 0
                 secs  == dur[1]
                 nsecs == IF adj THEN SubW(W32(NANOS_PER_SEC), dur[2]) ELSE dur[2]
             IN  IF LtU(SubW(I64(0), RD_SECONDS_MIN), secs) THEN None
                 ELSE Some(<<SubW(I64(0), secs), nsecs>>) \* (-(secs as i64), nsecs)

\* systemtime_to_secs(st: SystemTime) -> Option<(i64, u32)>
systemtime_to_secs(st) ==
    LET ds  == DurationSinceEpoch(st)
        dur == ds[2]
    IN  IF ds[1] = "Ok"
        THEN LET secs  == dur[1]                         \* dur.as_secs()
                 nsecs == dur[2]                         \* dur.subsec_nanos()
             IN  IF LtU(RD_SECONDS_MAX, secs) THEN None  \* secs > RD_SECONDS_MAX as u64
                 ELSE Some(<<secs, nsecs>>)
        ELSE LET adj   == LtU(W32(0), dur[2])            \* nsecs > 0
                 secs  == IF adj THEN AddW(dur[1], I64(1)) ELSE dur[1]
                 nsecs == IF adj THEN SubW(W32(NANOS_PER_SEC), dur[2]) ELSE dur[2]
             IN  IF LtU(SubW(I64(0), RD_SECONDS_MIN), secs) THEN None
                 ELSE Some(<<SubW(I64(0), secs), nsecs>>) \* (-(secs as i64), nsecs)

\* mutant of secs_to_systemtime: before the epoch the fraction of a second is
\* subtracted without borrowing from the seconds
secs_to_systemtime_no_borrow(p) ==
    LET secs  == p[1]
        nsecs == p[2]
    IN  IF LeS(I64(0), secs)
        THEN EpochCheckedAdd(DurationNew(secs, nsecs))
        ELSE IF LtU(W32(0), nsecs)
        THEN EpochCheckedSub(DurationNew(SubW(I64(0), secs), nsecs))
        ELSE EpochCheckedSub(DurationFromSecs(SubW(I64(0), secs)))

\* secs_to_systemtime((secs, nsecs)) -> Option<SystemTime>
secs_to_systemtime(p) ==
    LET secs  == p[1]
        nsecs == p[2]
    IN  IF LeS(I64(0), secs)
        THEN EpochCheckedAdd(DurationNew(secs, nsecs))
        ELSE IF LtU(W32(0), nsecs)
        THEN EpochCheckedSub(DurationNew(SubW(SubW(I64(0), secs), I64(1)),
                                         SubW(W32(NANOS_PER_SEC), nsecs)))
        ELSE EpochCheckedSub(DurationFromSecs(SubW(I64(0), secs)))

\* mutant of secs_to_systemtime_halts: negative seconds are not told apart,
\* Duration::new(secs as u64, nsecs) is built for every secs
secs_to_systemtime_halts_unsigned(p) ==
    LET secs  == p[1]
        nsecs == p[2]
    IN  DurationNewPanics(secs, nsecs)

\* the call of Duration::new in secs_to_systemtime panics
secs_to_systemtime_halts(p) ==
    LET secs  == p[1]
        nsecs == p[2]
    IN  IF LeS(I64(0), secs)
        THEN DurationNewPanics(secs, nsecs)
        ELSE IF LtU(W32(0), nsecs)
        THEN DurationNewPanics(SubW(SubW(I64(0), secs), I64(1)),
                               SubW(W32(NANOS_PER_SEC), nsecs))
        ELSE FALSE

\* the debug_asserts of secs_to_systemtime
secs_to_systemtime_assert(p) ==
    /\ LeS(RD_SECONDS_MIN, p[1]) /\ LeS(p[1], RD_SECONDS_MAX)
    /\ ~LtU(p[2], W32(NANOSECOND_MIN)) /\ ~LtU(W32(NANOSECOND_MAX), p[2])

\* systemtime_to_datetime(st) -> Option<(y, m, d, hh, mm, ss, nsecs)>
systemtime_to_datetime(st) ==
    LET o == systemtime_to_secs(st)
    IN  IF o = None THEN None
        ELSE LET t    == secs_to_dhms(o[2][1])
                 date == rd_to_date(t[1])
             IN  Some(<<date[1], date[2], date[3], t[2], t[3], t[4], o[2][2]>>)

\* the debug_asserts met by systemtime_to_datetime
systemtime_to_datetime_assert(st) ==
    LET o == systemtime_to_secs(st)
    IN  o # None => secs_to_datetime_assert(o[2][1])

\* datetime_to_systemtime((y, m, d, hh, mm, ss, nsec)) -> Option<SystemTime>
datetime_to_systemtime(dt) ==
    LET days == date_to_rd(<<dt[1], dt[2], dt[3]>>)
        secs == dhms_to_secs(<<days, dt[4], dt[5], dt[6]>>)
    IN  secs_to_systemtime(<<secs, dt[7]>>)

\* the call of Duration::new in datetime_to_systemtime panics
datetime_to_systemtime_halts(dt) ==
    secs_to_systemtime_halts(<<datetime_to_secs(<<dt[1], dt[2], dt[3], dt[4], dt[5], dt[6]>>), dt[7]>>)

\* the debug_asserts met by datetime_to_systemtime
datetime_to_systemtime_assert(dt) ==
    /\ datetime_to_secs_assert(<<dt[1], dt[2], dt[3], dt[4], dt[5], dt[6]>>)
    /\ secs_to_systemtime_assert(<<datetime_to_secs(<<dt[1], dt[2], dt[3], dt[4], dt[5], dt[6]>>), dt[7]>>)

---------------------------------------------------------------------------
(* Inputs.  The functions are pure, so the state machine is: an input of   *)
(* one of the documented domains is chosen, then one library function is   *)
(* called on it.  The domains hold 10^9 days and 10^14 seconds; the inputs *)
(* are the neighbourhoods of the places where the algorithms change        *)
(* regime: the ends of the supported range, the epoch, era and century     *)
(* boundaries, leap days, year ends, and the ends of each month.           *)

\* days on each side of an anchor day
Span == 5
\* years on each side of an anchor year
YearSpan == 1
\* days of a month taken at each end of the month
EdgeDays == 2
\* values of an hour, minute or second field taken at each end of its range
TimeSpan == 1
\* weeks of a year taken at each end of the year
EdgeWeeks == 2
\* days taken on each side of the turn of a year
TurnDays == 4
\* years on each side of year 0 and of year 2000, and at each end of the
\* range, on which the functions of a year alone are called
YearWindow == 200

\* 0000-03-01 (start of an era), 0000-01-01, 1900-03-01, 2000-03-01,
\* 2020-12-31, 2023-01-01, 2023-05-12, 2024-02-29, 2026-01-01, 1981-12-31
\* (the end of a 53-week year that starts on a Thursday), and a grid over
\* the whole range
RdAnchors ==
    {RD_MIN, RD_MAX, 0, -719468, -719528, -25508, 11017, 18627, 19358, 19489, 19782, 20454, 4382}
        \cup {RD_MIN + k * 2^26 : k \in 1..15}

\* the (date, day count) pairs of the documentation examples of rd_to_date
\* and date_to_rd
DocPairs ==
    {<<<<0, 1, 1>>, -719528>>, <<<<1970, 1, 1>>, 0>>, <<<<2023, 5, 12>>, 19489>>,
     <<<<9999, 12, 31>>, 2932896>>, <<<<129999, 12, 31>>, 46761996>>,
     <<<<-129999, 1, 1>>, -48200687>>}

RdInputs ==
    {n \in UNION {(a - Span)..(a + Span) : a \in RdAnchors} : n >= RD_MIN /\ n <= RD_MAX}
        \cup {p[2] : p \in DocPairs}

YearAnchors == {YEAR_MIN, YEAR_MAX, 0, 1900, 1970, 2000, 2024, -400}

YearInputs ==
    {y \in UNION {(a - YearSpan)..(a + YearSpan) : a \in YearAnchors} : y >= YEAR_MIN /\ y <= YEAR_MAX}
        \cup {YEAR_MIN + k * 2^19 : k \in 1..5}

\* valid Gregorian dates of the supported range
ValidDate(date) ==
    /\ date[1] >= YEAR_MIN /\ date[1] <= YEAR_MAX
    /\ date[2] >= MONTH_MIN /\ date[2] <= MONTH_MAX
    /\ date[3] >= DAY_MIN /\ date[3] <= days_in_month(date[1], date[2])

\* the dates of the documentation examples of date_to_isoweekdate
IsoDocDates ==
    {<<2023, 5, 12>>, <<1970, 1, 1>>, <<2023, 1, 1>>, <<1979, 12, 31>>, <<1981, 12, 31>>,
     <<1982, 1, 1>>}

\* the first days of January and the last days of December
TurnDates ==
    {<<y, 1, d>> : y \in YearInputs, d \in DAY_MIN..TurnDays}
        \cup {<<y, 12, d>> : y \in YearInputs, d \in (DAY_MAX - TurnDays + 1)..DAY_MAX}

DateInputs ==
    {date \in YearInputs \X (MONTH_MIN..MONTH_MAX) \X (DAY_MIN..DAY_MAX) :
        /\ ValidDate(date)
        /\ \/ date[3] <= EdgeDays
           \/ date[3] > days_in_month(date[1], date[2]) - EdgeDays}
        \cup {p[1] : p \in DocPairs} \cup IsoDocDates \cup TurnDates

\* the values of a field of range lo..hi: its ends and its middle
Field(lo, hi) ==
    {v \in lo..hi : v < lo + TimeSpan \/ v > hi - TimeSpan \/ v = (lo + hi + 1) \div 2}

TimeInputs ==
    Field(HOUR_MIN, HOUR_MAX) \X Field(MINUTE_MIN, MINUTE_MAX) \X Field(SECOND_MIN, SECOND_MAX)

\* the days whose seconds are taken: the ends of the range, the epoch, 2023-05-20
SecDays == {RD_MIN, RD_MIN + 1, -1, 0, 1, 19497, RD_MAX - 1, RD_MAX}

DhmsInputs == {<<d, t[1], t[2], t[3]>> : d \in SecDays, t \in TimeInputs}

\* the i64 d * 86400 + r; every i64 of [RD_SECONDS_MIN, RD_SECONDS_MAX] is
\* such a value for exactly one day d of [RD_MIN, RD_MAX] and one r of 0..86399
SecsOf(d, r) == AddW(MulW(I64(d), I64(86400)), I64(r))

\* 2023-05-20T09:24:38, the documentation example of secs_to_datetime
DocSecs == I64Dec(1, 684574678)

SecsInputs ==
    {SecsOf(d, t[1] * 3600 + t[2] * 60 + t[3]) : d \in SecDays, t \in TimeInputs}
        \cup {DocSecs}

\* the dates whose times of day are taken: the ends of the range, both sides
\* of the epoch, a leap day, 2023-05-20
DatetimeDates ==
    {<<YEAR_MIN, 1, 1>>, <<YEAR_MIN, 1, 2>>, <<1969, 12, 31>>, <<1970, 1, 1>>, <<2000, 2, 29>>,
     <<2023, 5, 20>>, <<YEAR_MAX, 12, 30>>, <<YEAR_MAX, 12, 31>>}

\* valid datetimes (y, m, d, hh, mm, ss)
DatetimeInputs ==
    {<<x[1], x[2], x[3], t[1], t[2], t[3]>> : x \in DatetimeDates, t \in TimeInputs}
        \cup {<<2023, 5, 20, 9, 24, 38>>}

\* ISO week dates (y, w, wd) with y in [YEAR_MIN, YEAR_MAX], w in
\* 1..isoweeks_in_year(y) and wd in 1..7: the first and last weeks of a year
IsoInputs ==
    UNION {LET n == isoweeks_in_year(y)
           IN  {<<y, w, wd>> : w \in {k \in WEEK_MIN..n : k <= EdgeWeeks \/ k > n - EdgeWeeks},
                               wd \in WEEKDAY_MIN..WEEKDAY_MAX} :
           y \in YearInputs}

\* the years given to the functions of a year alone
YearArgs ==
    YearInputs
        \cup ((0 - YearWindow)..YearWindow)
        \cup ((2000 - YearWindow)..(2000 + YearWindow))
        \cup (YEAR_MIN..(YEAR_MIN + YearWindow))
        \cup ((YEAR_MAX - YearWindow)..YEAR_MAX)

\* (year, month) pairs
YearMonthInputs == YearInputs \X (MONTH_MIN..MONTH_MAX)

\* Inputs of the parameter types outside the documented domains, for the
\* builds without debug assertions.

\* i32::MIN and i32::MAX
I32_MIN == -2147483647 - 1
I32_MAX == 2147483647

\* i64::MIN and i64::MAX
I64_MIN == <<0, 0, 0, 0, 0, 0, 0, 128>>
I64_MAX == <<255, 255, 255, 255, 255, 255, 255, 127>>

\* days of the whole i32 type: its ends and both sides of each end of the range
AnyDays == {I32_MIN, RD_MIN - 1, RD_MIN, 0, RD_MAX, RD_MAX + 1, I32_MAX}

\* (h, m, s) of the whole u8 type: valid corners and one field past its range
AnyTimes == {<<0, 0, 0>>, <<23, 59, 59>>, <<24, 0, 0>>, <<0, 60, 0>>, <<0, 0, 60>>, <<255, 255, 255>>}

AnyDhmsInputs == {<<d, t[1], t[2], t[3]>> : d \in AnyDays, t \in AnyTimes}

\* seconds of the whole i64 type: its ends, both sides of each end of the
\* range, and both sides of -SECS_OFFSET, where secs + SECS_OFFSET changes sign
AnySecsInputs ==
    {I64_MIN, I64_MAX, I64(-1), I64(0),
     SubW(I64(-1), SECS_OFFSET), SubW(I64(0), SECS_OFFSET),
     SubW(RD_SECONDS_MIN, I64(1)), RD_SECONDS_MIN,
     RD_SECONDS_MAX, AddW(RD_SECONDS_MAX, I64(1)), AddW(RD_SECONDS_MAX, I64(86400 + 3661))}

\* years of the whole i32 type
AnyYears == {I32_MIN, YEAR_MIN - 1, 0, YEAR_MAX + 1, I32_MAX}

\* months, days, weeks and weekdays of the whole u8 type
AnyMonths == {0, 1, 2, 12, 13, 255}
AnyDaysOfMonth == {0, 1, 28, 31, 32, 255}
AnyWeeks == {0, 1, 53, 54, 255}
AnyWeekdays == {0, 1, 7, 8, 255}

AnyDateInputs == AnyYears \X AnyMonths \X AnyDaysOfMonth

AnyIsoInputs == AnyYears \X AnyWeeks \X AnyWeekdays

AnyYearMonthInputs == AnyYears \X AnyMonths

\* dates, valid and not, that go with a time of day
AnyDatetimeDates ==
    {<<1970, 1, 1>>, <<1969, 12, 31>>, <<2023, 5, 20>>, <<YEAR_MIN, 1, 1>>, <<YEAR_MAX, 12, 31>>,
     <<I32_MIN, 0, 0>>, <<I32_MAX, 255, 255>>}

AnyDatetimeTimes == {<<0, 0, 0>>, <<23, 59, 59>>, <<255, 255, 255>>}

AnyDatetimeInputs ==
    {<<x[1], x[2], x[3], t[1], t[2], t[3]>> : x \in AnyDatetimeDates, t \in AnyDatetimeTimes}

\* values on each side of an anchor of the split by 60
SplitSpan == 61

\* dividends of the split by 60: the ends of the minutes of a day, of the
\* seconds of a day and of [0, SPLIT_LIMIT[, and a grid over it
SplitAnchors ==
    {0, 1439, 86399, SPLIT_LIMIT - 1} \cup {k * 2^22 + 59 : k \in 1..23}

SplitInputs ==
    {I64(n) : n \in {v \in UNION {(a - SplitSpan)..(a + SplitSpan) : a \in SplitAnchors} :
                        v >= 0 /\ v < SPLIT_LIMIT}}

\* nanoseconds 0..999_999_999: both ends and the middle
NanosInputs ==
    {W32(n) : n \in (NANOSECOND_MIN..(NANOSECOND_MIN + TimeSpan - 1))
                      \cup ((NANOSECOND_MAX - TimeSpan + 1)..NANOSECOND_MAX)
                      \cup {(NANOSECOND_MAX + 1) \div 2}}

\* nanoseconds of the whole u32 type
AnyNanos == NanosInputs \cup {W32(NANOS_PER_SEC), MulW(W32(NANOS_PER_SEC), W32(4)), Limbs(-1, 4)}

\* (secs, nsecs) of the whole type (i64, u32)
AnySecsNsecsInputs == AnySecsInputs \X AnyNanos

AnyDatetimeNsInputs ==
    {<<x[1], x[2], x[3], t[1], t[2], t[3], n>> :
        x \in AnyDatetimeDates, t \in AnyDatetimeTimes, n \in {W32(0), W32(NANOSECOND_MAX), Limbs(-1, 4)}}

\* timestamps of a Unix host: tv_sec at the ends of i64, on both sides of
\* each end of the range and around the epoch
SystemTimeSecs ==
    {I64_MIN, SubW(RD_SECONDS_MIN, I64(1)), RD_SECONDS_MIN, I64(-2), I64(-1), I64(0), I64(1),
     I64Dec(1, 684574678), RD_SECONDS_MAX, AddW(RD_SECONDS_MAX, I64(1)), I64_MAX}

SystemTimeInputs == SystemTimeSecs \X NanosInputs

\* seconds of [RD_SECONDS_MIN, RD_SECONDS_MAX] that go with nanoseconds: the
\* ends of the range, both sides of the epoch, 2023-05-20T09:24:38
RangeSecs ==
    {RD_SECONDS_MIN, AddW(RD_SECONDS_MIN, I64(1)), I64(-2), I64(-1), I64(0), I64(1),
     I64Dec(1, 684574678), SubW(RD_SECONDS_MAX, I64(1)), RD_SECONDS_MAX}

\* (secs, nsecs) of the documented domain
SecsNsecsInputs == RangeSecs \X NanosInputs

---------------------------------------------------------------------------
(* State machine.  kind and arg are the chosen input; op is "input" until  *)
(* a function has been called and is then its name; res is what the call   *)
(* returned.  debug tells whether the build has debug assertions: a call   *)
(* whose debug assertions fail halts in a build with debug assertions      *)
(* (panic) and computes on in a build without them.                        *)

Init ==
    /\ debug \in BOOLEAN
    /\ op = "input"
    /\ res = <<>>
    /\ panic = FALSE
    /\ \/ kind = "rd" /\ arg \in RdInputs
       \/ kind = "date" /\ arg \in DateInputs
       \/ kind = "secs" /\ arg \in SecsInputs
       \/ kind = "dhms" /\ arg \in DhmsInputs
       \/ kind = "iso" /\ arg \in IsoInputs
       \/ kind = "year" /\ arg \in YearArgs
       \/ kind = "ym" /\ arg \in YearMonthInputs
       \/ kind = "any_dhms" /\ arg \in AnyDhmsInputs
       \/ kind = "any_secs" /\ arg \in AnySecsInputs
       \/ kind = "any_rd" /\ arg \in AnyDays
       \/ kind = "any_date" /\ arg \in AnyDateInputs
       \/ kind = "any_iso" /\ arg \in AnyIsoInputs
       \/ kind = "any_year" /\ arg \in AnyYears
       \/ kind = "any_ym" /\ arg \in AnyYearMonthInputs
       \/ kind = "any_datetime" /\ arg \in AnyDatetimeInputs
       \/ kind = "any_secs_nsecs" /\ arg \in AnySecsNsecsInputs
       \/ kind = "any_datetime_ns" /\ arg \in AnyDatetimeNsInputs
       \/ kind = "systemtime" /\ arg \in SystemTimeInputs
       \/ kind = "secs_nsecs" /\ arg \in SecsNsecsInputs
       \/ kind = "split" /\ arg \in SplitInputs
       \/ kind = "datetime" /\ arg \in DatetimeInputs

\* a call of f: pre is the conjunction of its debug assertions (and, for the
\* day codec, of the overflow checks of its arithmetic), halt tells
\* whether a panic of the standard library is met in every build
CallH(f, pre, halt, r) ==
    /\ op = "input"
    /\ op' = f
    /\ panic' = ((debug /\ ~pre) \/ halt)
    /\ res' = IF panic' THEN <<>> ELSE r
    /\ UNCHANGED <<debug, kind, arg>>

Call(f, pre, r) == CallH(f, pre, FALSE, r)

RdToDate ==
    kind \in {"rd", "any_rd"} /\ Call("rd_to_date", rd_to_date_assert(arg) /\ ~rd_to_date_overflows(arg),
                                        rd_to_date(arg))

DateToRd ==
    kind \in {"date", "any_date"} /\ Call("date_to_rd", date_to_rd_assert(arg) /\ ~date_to_rd_overflows(arg),
                                            date_to_rd(arg))

RdToWeekday ==
    kind \in {"rd", "any_rd"} /\ Call("rd_to_weekday", rd_to_weekday_assert(arg) /\ ~rd_to_weekday_overflows(arg),
                                        rd_to_weekday(arg))

DateToWeekday ==
    kind \in {"date", "any_date"} /\ Call("date_to_weekday", date_to_weekday_assert(arg), date_to_weekday(arg))

NextDate ==
    kind \in {"date", "any_date"} /\ Call("next_date", next_date_assert(arg), next_date(arg))

PrevDate ==
    kind \in {"date", "any_date"} /\ Call("prev_date", prev_date_assert(arg), prev_date(arg))

SecsToDhms ==
    kind \in {"secs", "any_secs"} /\ Call("secs_to_dhms", secs_to_dhms_assert(arg), secs_to_dhms(arg))

\* the step of secs_to_dhms that splits by 60
Split60 ==
    kind = "split" /\ Call("split60", TRUE, split60(arg))

DhmsToSecs ==
    kind \in {"dhms", "any_dhms"} /\ Call("dhms_to_secs", dhms_to_secs_assert(arg), dhms_to_secs(arg))

RdToIsoweekdate ==
    kind \in {"rd", "any_rd"} /\ Call("rd_to_isoweekdate", rd_to_isoweekdate_assert(arg), rd_to_isoweekdate(arg))

IsoweekdateToRd ==
    kind \in {"iso", "any_iso"} /\ Call("isoweekdate_to_rd", isoweekdate_to_rd_assert(arg), isoweekdate_to_rd(arg))

IsoweekdateToDate ==
    kind \in {"iso", "any_iso"} /\ Call("isoweekdate_to_date", isoweekdate_to_date_assert(arg), isoweekdate_to_date(arg))

IsLeapYear ==
    kind \in {"year", "any_year"} /\ Call("is_leap_year", is_leap_year_assert(arg), is_leap_year(arg))

DaysInMonth ==
    kind \in {"ym", "any_ym"} /\ Call("days_in_month", days_in_month_assert(arg[1], arg[2]), days_in_month(arg[1], arg[2]))

IsoweeksInYear ==
    kind \in {"year", "any_year"} /\ Call("isoweeks_in_year", isoweeks_in_year_assert(arg), isoweeks_in_year(arg))

DateToIsoweekdate ==
    kind \in {"date", "any_date"} /\ Call("date_to_isoweekdate", date_to_isoweekdate_assert(arg), date_to_isoweekdate(arg))

SecsToDatetime ==
    kind \in {"secs", "any_secs"} /\ Call("secs_to_datetime", secs_to_datetime_assert(arg), secs_to_datetime(arg))

DatetimeToSecs ==
    kind \in {"datetime", "any_datetime"} /\ Call("datetime_to_secs", datetime_to_secs_assert(arg), datetime_to_secs(arg))

SystemtimeToSecs ==
    kind = "systemtime" /\ Call("systemtime_to_secs", TRUE, systemtime_to_secs(arg))

SecsToSystemtime ==
    kind \in {"secs_nsecs", "any_secs_nsecs"} /\ CallH("secs_to_systemtime", secs_to_systemtime_assert(arg),
                                     secs_to_systemtime_halts(arg), secs_to_systemtime(arg))

SystemtimeToDatetime ==
    kind = "systemtime" /\ Call("systemtime_to_datetime", systemtime_to_datetime_assert(arg),
                                systemtime_to_datetime(arg))

DatetimeToSystemtime ==
    kind = "any_datetime_ns" /\ CallH("datetime_to_systemtime", datetime_to_systemtime_assert(arg),
                                      datetime_to_systemtime_halts(arg), datetime_to_systemtime(arg))

Next ==
    \/ RdToDate
    \/ DateToRd
    \/ RdToWeekday
    \/ DateToWeekday
    \/ NextDate
    \/ PrevDate
    \/ SecsToDhms
    \/ Split60
    \/ DhmsToSecs
    \/ RdToIsoweekdate
    \/ IsoweekdateToRd
    \/ IsoweekdateToDate
    \/ IsLeapYear
    \/ DaysInMonth
    \/ IsoweeksInYear
    \/ DateToIsoweekdate
    \/ SecsToDatetime
    \/ DatetimeToSecs
    \/ SystemtimeToSecs
    \/ SecsToSystemtime
    \/ SystemtimeToDatetime
    \/ DatetimeToSystemtime

Spec == Init /\ [][Next]_vars

\* a call of f has returned
Returned(f) == op = f /\ ~panic

---------------------------------------------------------------------------
(* Properties.                                                             *)

\* C1: for every day count n in [RD_MIN, RD_MAX], converting n to a date
\* and the date back gives n: date_to_rd(rd_to_date(n)) = n.
C1_RdRoundTrip ==
    (kind = "rd" /\ Returned("rd_to_date")) => date_to_rd(res) = arg

\* the first day of the range has been converted and converts back
C1_Witness ==
    /\ kind = "rd" /\ Returned("rd_to_date")
    /\ arg = RD_MIN
    /\ date_to_rd(res) = RD_MIN

\* C2: for every valid date of the supported range, date_to_rd gives a day
\* count in [RD_MIN, RD_MAX] and rd_to_date of it gives the date back.
C2_DateRoundTrip ==
    (kind = "date" /\ Returned("date_to_rd")) =>
        /\ res >= RD_MIN /\ res <= RD_MAX
        /\ rd_to_date(res) = arg

\* a leap day has been converted to its day count and back
C2_Witness ==
    /\ kind = "date" /\ Returned("date_to_rd")
    /\ arg = <<2024, 2, 29>>
    /\ res = 19782
    /\ rd_to_date(res) = arg

\* C3: for every n in [RD_MIN, RD_MAX], rd_to_date(n) is a valid date:
\* year in [YEAR_MIN, YEAR_MAX], month in 1..12, day in 1..days_in_month.
C3_RdToDateValid ==
    (kind = "rd" /\ Returned("rd_to_date")) => ValidDate(res)

\* a day of January, where the shifted month numbering is mapped back, has
\* been converted
C3_Witness ==
    /\ kind = "rd" /\ Returned("rd_to_date")
    /\ arg = 19358
    /\ res = <<2023, 1, 1>>

\* the published values of the range constants
RangeLiterals ==
    /\ YEAR_MIN = -1467999 /\ YEAR_MAX = 1471744
    /\ RD_MIN = date_to_rd(<<YEAR_MIN, 1, 1>>) /\ RD_MIN = -536895152
    /\ RD_MAX = date_to_rd(<<YEAR_MAX, 12, 31>>) /\ RD_MAX = 536824295
    /\ RD_SECONDS_MIN = I64Dec(-46387, -741132800)
    /\ RD_SECONDS_MAX = I64Dec(46381, 619174399)
    /\ RD_SECONDS_MIN = SecsOf(RD_MIN, 0)
    /\ RD_SECONDS_MAX = SecsOf(RD_MAX, 86399)

\* C4: the range constants are the derived values: RD_MIN and RD_MAX are
\* date_to_rd of YEAR_MIN-01-01 and YEAR_MAX-12-31, that is -536895152 and
\* 536824295, and RD_SECONDS_MIN and RD_SECONDS_MAX are RD_MIN * 86400 =
\* -46387741132800 and RD_MAX * 86400 + 86399 = 46381619174399.
C4_RangeConstants ==
    /\ RangeLiterals
    /\ (kind = "date" /\ Returned("date_to_rd") /\ arg = <<YEAR_MIN, 1, 1>>) => res = -536895152
    /\ (kind = "date" /\ Returned("date_to_rd") /\ arg = <<YEAR_MAX, 12, 31>>) => res = 536824295

\* the last day of the range has been converted to RD_MAX
C4_Witness ==
    /\ kind = "date" /\ Returned("date_to_rd")
    /\ arg = <<YEAR_MAX, 12, 31>>
    /\ res = 536824295

\* C5: for every valid date, date_to_weekday agrees with rd_to_weekday of
\* the date's day count, and is in 1..7.
C5_WeekdayAgreement ==
    (kind = "date" /\ Returned("date_to_weekday")) =>
        /\ res = rd_to_weekday(date_to_rd(arg))
        /\ res >= WEEKDAY_MIN /\ res <= WEEKDAY_MAX

\* the weekday of a date of February (a month of the previous shifted year)
\* has been computed both ways
C5_Witness ==
    /\ kind = "date" /\ Returned("date_to_weekday")
    /\ arg = <<2000, 2, 29>>
    /\ res = 2
    /\ rd_to_weekday(date_to_rd(arg)) = 2

\* floor(2^64 / 7), by long division of the 65-bit number 2^64
FloorP64Over7 == Trunc(DivU(<<0, 0, 0, 0, 0, 0, 0, 0, 1>>, 7), 8)

\* C6: for every n in [RD_MIN, RD_MAX], rd_to_weekday(n), the top 3 bits of
\* the wrapping 64-bit product (n - RD_MIN + 1) * floor(2^64 / 7), is
\* ((n - RD_MIN) mod 7) + 1, in 1..7; rd_to_weekday(0) = 4 (Thursday).
C6_RdToWeekday ==
    /\ P64_OVER_SEVEN = FloorP64Over7
    /\ (kind = "rd" /\ Returned("rd_to_weekday")) =>
        /\ res = ((arg - RD_MIN) % 7) + 1
        /\ res >= 1 /\ res <= 7
        /\ (arg = 0 => res = 4)

\* the weekday of the epoch has been computed
C6_Witness ==
    /\ kind = "rd" /\ Returned("rd_to_weekday")
    /\ arg = 0
    /\ res = 4

\* C7: for every valid date other than YEAR_MAX-12-31, next_date is a valid
\* date one day later (by date_to_rd); for every valid date other than
\* YEAR_MIN-01-01, prev_date is a valid date one day earlier.
C7_NextPrevDate ==
    /\ (kind = "date" /\ Returned("next_date") /\ arg # <<YEAR_MAX, 12, 31>>) =>
        /\ ValidDate(res)
        /\ date_to_rd(res) = date_to_rd(arg) + 1
    /\ (kind = "date" /\ Returned("prev_date") /\ arg # <<YEAR_MIN, 1, 1>>) =>
        /\ ValidDate(res)
        /\ date_to_rd(res) = date_to_rd(arg) - 1

\* the day after the last day of a year has been computed
C7_Witness ==
    /\ kind = "date" /\ Returned("next_date")
    /\ arg = <<1999, 12, 31>>
    /\ res = <<2000, 1, 1>>

\* C8: for every s in [RD_SECONDS_MIN, RD_SECONDS_MAX],
\* dhms_to_secs(secs_to_dhms(s)) = s.
C8_SecsRoundTrip ==
    (kind = "secs" /\ Returned("secs_to_dhms")) => dhms_to_secs(res) = arg

\* the last second of the range has been split and recombined
C8_Witness ==
    /\ kind = "secs" /\ Returned("secs_to_dhms")
    /\ arg = RD_SECONDS_MAX
    /\ dhms_to_secs(res) = RD_SECONDS_MAX

\* C9: for every s in [RD_SECONDS_MIN, RD_SECONDS_MAX], negative s included,
\* secs_to_dhms(s) = (days, h, m, sec) with days in [RD_MIN, RD_MAX],
\* h in 0..23, m in 0..59, sec in 0..59 and s = days * 86400 + h * 3600 +
\* m * 60 + sec: days is the floor of s / 86400 and h, m, sec split the
\* remainder r in [0, 86400) as r / 3600, (r / 60) mod 60, r mod 60.
\* secs_to_dhms(-1) = (-1, 23, 59, 59).
C9_SecsToDhms ==
    (kind = "secs" /\ Returned("secs_to_dhms")) =>
        /\ res[1] >= RD_MIN /\ res[1] <= RD_MAX
        /\ res[2] >= 0 /\ res[2] <= 23
        /\ res[3] >= 0 /\ res[3] <= 59
        /\ res[4] >= 0 /\ res[4] <= 59
        /\ arg = SecsOf(res[1], res[2] * 3600 + res[3] * 60 + res[4])
        /\ (arg = I64(-1) => res = <<-1, 23, 59, 59>>)

\* the second before the epoch has been split
C9_Witness ==
    /\ kind = "secs" /\ Returned("secs_to_dhms")
    /\ arg = I64(-1)
    /\ res = <<-1, 23, 59, 59>>

\* C10: for every n in [RD_MIN, RD_MAX],
\* isoweekdate_to_rd(rd_to_isoweekdate(n)) = n.
C10_IsoRoundTrip ==
    (kind = "rd" /\ Returned("rd_to_isoweekdate")) => isoweekdate_to_rd(res) = arg

\* a day that belongs to the last ISO week of the previous year has been
\* converted and converts back
C10_Witness ==
    /\ kind = "rd" /\ Returned("rd_to_isoweekdate")
    /\ arg = 19358
    /\ res = <<2022, 52, 7>>
    /\ isoweekdate_to_rd(res) = 19358

\* the call of f has ended: it returned or a debug assertion halted it
Ended(f) == op = f

\* C11: for every valid ISO week date (y, w, wd) with y in [YEAR_MIN,
\* YEAR_MAX], w in 1..isoweeks_in_year(y) and wd in 1..7, the conversions
\* complete and rd_to_isoweekdate(isoweekdate_to_rd((y, w, wd))) = (y, w, wd),
\* and likewise date_to_isoweekdate(isoweekdate_to_date((y, w, wd))).
C11_IsoRoundTripFromWeekdate ==
    /\ (kind = "iso" /\ Ended("isoweekdate_to_rd")) =>
        /\ ~panic
        /\ rd_to_isoweekdate_assert(res)
        /\ rd_to_isoweekdate(res) = arg
    /\ (kind = "iso" /\ Ended("isoweekdate_to_date")) =>
        /\ ~panic
        /\ date_to_isoweekdate_assert(res)
        /\ date_to_isoweekdate(res) = arg

\* C12: for every y in [YEAR_MIN, YEAR_MAX], w in 1..isoweeks_in_year(y) and
\* wd in 1..7, isoweekdate_to_rd((y, w, wd)) completes without a
\* precondition failure and returns a day count in [RD_MIN, RD_MAX].
C12_IsoweekdateToRdInRange ==
    (kind = "iso" /\ Ended("isoweekdate_to_rd")) =>
        /\ ~panic
        /\ res >= RD_MIN /\ res <= RD_MAX

\* C13: for every y in [YEAR_MIN, YEAR_MAX], w in 1..isoweeks_in_year(y) and
\* wd in 1..7, except y = YEAR_MAX with w = isoweeks_in_year(y) and wd >= 6,
\* isoweekdate_to_date((y, w, wd)) returns a valid Gregorian date: year in
\* [YEAR_MIN, YEAR_MAX], month in 1..12, day in 1..days_in_month.
C13_IsoweekdateToDateValid ==
    (/\ kind = "iso" /\ Ended("isoweekdate_to_date")
     /\ ~(arg[1] = YEAR_MAX /\ arg[2] = isoweeks_in_year(arg[1]) /\ arg[3] >= 6)) =>
        /\ ~panic
        /\ ValidDate(res)

\* the Gregorian rule: divisible by 4 and (not by 100 or by 400)
GregorianLeap(y) == y % 4 = 0 /\ (y % 100 # 0 \/ y % 400 = 0)

\* C14: for every y in [YEAR_MIN, YEAR_MAX], isoweeks_in_year(y) is 53 if
\* January 1st of y is a Thursday, or is a Wednesday and y is a leap year,
\* and 52 otherwise; it is 53 for 2026 and 52 for 2023.
C14_IsoweeksInYear ==
    (kind = "year" /\ Returned("isoweeks_in_year")) =>
        LET jan1 == rd_to_weekday(date_to_rd(<<arg, 1, 1>>))
        IN  /\ res = IF jan1 = 4 \/ (jan1 = 3 /\ GregorianLeap(arg)) THEN 53 ELSE 52
            /\ (arg = 2026 => res = 53)
            /\ (arg = 2023 => res = 52)

\* the weeks of a common year that starts on a Wednesday have been counted
C14_Witness ==
    /\ kind = "year" /\ Returned("isoweeks_in_year")
    /\ arg = 2025
    /\ rd_to_weekday(date_to_rd(<<arg, 1, 1>>)) = 3
    /\ res = 52

\* C15: for every y in [YEAR_MIN, YEAR_MAX], negative years included,
\* is_leap_year(y) is the Gregorian rule: y divisible by 4 and (not
\* divisible by 100 or divisible by 400).
C15_IsLeapYear ==
    (kind = "year" /\ Returned("is_leap_year")) => (res = GregorianLeap(arg))

\* a negative century year that is not a multiple of 400 has been tested
C15_Witness ==
    /\ kind = "year" /\ Returned("is_leap_year")
    /\ arg = -200
    /\ res = FALSE

\* C16: for every y in range and m in 1..12, days_in_month(y, m) is 31 for
\* m in {1, 3, 5, 7, 8, 10, 12}, 30 for m in {4, 6, 9, 11}, and for m = 2 it
\* is 29 in a leap year and 28 otherwise; it is always in 28..31.
C16_DaysInMonth ==
    (kind = "ym" /\ Returned("days_in_month")) =>
        /\ arg[2] \in {1, 3, 5, 7, 8, 10, 12} => res = 31
        /\ arg[2] \in {4, 6, 9, 11} => res = 30
        /\ arg[2] = 2 => res = IF GregorianLeap(arg[1]) THEN 29 ELSE 28
        /\ res >= 28 /\ res <= 31

\* the length of an August, a month whose number has bit 3 set, has been computed
C16_Witness ==
    /\ kind = "ym" /\ Returned("days_in_month")
    /\ arg = <<1900, 8>>
    /\ res = 31

\* C17: in a build with debug assertions, next_date halts on the last date
\* of the range (YEAR_MAX, 12, 31) and prev_date halts on the first date
\* (YEAR_MIN, 1, 1); on every other valid date of the range neither halts.
C17_NextPrevDateHalt ==
    /\ (debug /\ kind = "date" /\ Ended("next_date")) =>
        (panic <=> arg = <<YEAR_MAX, 12, 31>>)
    /\ (debug /\ kind = "date" /\ Ended("prev_date")) =>
        (panic <=> arg = <<YEAR_MIN, 1, 1>>)

\* next_date has been called on the last date of the range in a build with
\* debug assertions and has halted
C17_Witness ==
    /\ debug /\ kind = "date" /\ Ended("next_date")
    /\ arg = <<YEAR_MAX, 12, 31>>
    /\ panic

\* d * 86400 + h * 3600 + m * 60 + s in wrapping i64 arithmetic
DhmsSum(t) ==
    AddW(AddW(AddW(MulW(I64(t[1]), I64(86400)), MulW(I64(t[2]), I64(3600))),
              MulW(I64(t[3]), I64(60))),
         I64(t[4]))

\* C18 as stated: in a build without debug assertions no conversion tests
\* the range of its input: dhms_to_secs returns d * 86400 + h * 3600 +
\* m * 60 + s for any i32 d, and secs_to_dhms applies the same
\* offset-and-divide computation to any secs, also to secs > RD_SECONDS_MAX.
C18_NoRangeValidation ==
    /\ (~debug /\ kind = "any_dhms" /\ Ended("dhms_to_secs")) =>
        /\ ~panic
        /\ res = DhmsSum(arg)
    /\ (~debug /\ kind = "any_secs" /\ Ended("secs_to_dhms")) =>
        /\ ~panic
        /\ res = secs_to_dhms_unclamped(arg)

\* C18 as amended: in a build without debug assertions no call halts on an
\* out-of-range input; dhms_to_secs returns d * 86400 + h * 3600 + m * 60 + s
\* for every d in [RD_MIN, RD_MAX] and any u8 h, m, s, and 0 for every other
\* d; secs_to_dhms applies the offset-and-divide computation to every
\* secs <= RD_SECONDS_MAX (for secs >= -SECS_OFFSET the result is the floor
\* split of secs, also below RD_SECONDS_MIN), and to 0 in place of every
\* secs > RD_SECONDS_MAX, giving (0, 0, 0, 0).
C18_RangeTestsInRelease ==
    /\ (~debug /\ kind = "any_dhms" /\ Ended("dhms_to_secs")) =>
        /\ ~panic
        /\ res = IF arg[1] >= RD_MIN /\ arg[1] <= RD_MAX THEN DhmsSum(arg) ELSE I64(0)
    /\ (~debug /\ kind = "any_secs" /\ Ended("secs_to_dhms")) =>
        /\ ~panic
        /\ ~LeS(arg, RD_SECONDS_MAX) => res = <<0, 0, 0, 0>>
        /\ (LeS(SubW(I64(0), SECS_OFFSET), arg) /\ LeS(arg, RD_SECONDS_MAX)) =>
            /\ arg = SecsOf(res[1], res[2] * 3600 + res[3] * 60 + res[4])
            /\ res[2] <= 23 /\ res[3] <= 59 /\ res[4] <= 59

\* in a build without debug assertions the second after RD_SECONDS_MAX has
\* been split
C18_Witness ==
    /\ ~debug /\ ~panic
    /\ kind = "any_secs" /\ Ended("secs_to_dhms")
    /\ arg = AddW(RD_SECONDS_MAX, I64(1))
    /\ res = <<0, 0, 0, 0>>

\* values of the machine types
IsI32(v) == v >= I32_MIN /\ v <= I32_MAX
IsU8(v) == v >= 0 /\ v <= 255
IsWord(w, k) == Len(w) = k /\ \A i \in 1..k : w[i] >= 0 /\ w[i] < Base
IsDate(t) == Len(t) = 3 /\ IsI32(t[1]) /\ IsU8(t[2]) /\ IsU8(t[3])
IsOption(o) == o = None \/ (Len(o) = 2 /\ o[1] = "Some")

\* r is a value of the return type of the function f
HasReturnType(f, r) ==
    CASE f \in {"rd_to_date", "next_date", "prev_date", "isoweekdate_to_date",
                "rd_to_isoweekdate", "date_to_isoweekdate"} -> IsDate(r)
      [] f \in {"date_to_rd", "isoweekdate_to_rd"} -> IsI32(r)
      [] f \in {"rd_to_weekday", "date_to_weekday", "days_in_month", "isoweeks_in_year"} -> IsU8(r)
      [] f = "is_leap_year" -> r \in BOOLEAN
      [] f = "secs_to_dhms" -> Len(r) = 4 /\ IsI32(r[1]) /\ \A i \in 2..4 : IsU8(r[i])
      [] f = "split60" -> Len(r) = 2 /\ IsWord(r[1], 8) /\ IsWord(r[2], 4)
      [] f = "secs_to_datetime" -> Len(r) = 6 /\ IsI32(r[1]) /\ \A i \in 2..6 : IsU8(r[i])
      [] f \in {"dhms_to_secs", "datetime_to_secs"} -> IsWord(r, 8)
      [] f = "systemtime_to_secs" ->
            IsOption(r) /\ (r # None => IsWord(r[2][1], 8) /\ IsWord(r[2][2], 4))
      [] f \in {"secs_to_systemtime", "datetime_to_systemtime"} ->
            IsOption(r) /\ (r # None => IsWord(r[2][1], 8) /\ LtU(r[2][2], W32(NANOS_PER_SEC)))
      [] f = "systemtime_to_datetime" ->
            IsOption(r) /\ (r # None => /\ Len(r[2]) = 7 /\ IsI32(r[2][1])
                                        /\ \A i \in 2..6 : IsU8(r[2][i])
                                        /\ IsWord(r[2][7], 4))

\* C19: in a build without debug assertions (integer overflow wrapping)
\* every conversion returns a value of its return type for every input of
\* its parameter types, valid or not: no call halts, and the timestamp
\* conversions do not panic while building a Duration, whatever the seconds
\* and nanoseconds.
C19_ReleaseNeverHalts ==
    (~debug /\ op # "input") => (~panic /\ HasReturnType(op, res))

\* in a build without debug assertions secs_to_systemtime has been called
\* with negative seconds and the largest u32 of nanoseconds, and has returned
C19_Witness ==
    /\ ~debug /\ kind = "any_secs_nsecs" /\ Ended("secs_to_systemtime")
    /\ arg = <<I64(-1), Limbs(-1, 4)>>
    /\ ~panic
    /\ IsOption(res)

\* C20: for a timestamp t = tv_sec * 10^9 + tv_nsec nanoseconds from the
\* epoch, 0 <= tv_nsec < 10^9 (so floor(t / 10^9) = tv_sec and
\* t mod 10^9 = tv_nsec), systemtime_to_secs returns Some((tv_sec, tv_nsec))
\* exactly when RD_SECONDS_MIN <= tv_sec <= RD_SECONDS_MAX and None
\* otherwise, and never halts; one nanosecond before the epoch gives
\* Some((-1, 999_999_999)).
C20_SystemtimeToSecs ==
    (kind = "systemtime" /\ Ended("systemtime_to_secs")) =>
        /\ ~panic
        /\ res = IF LeS(RD_SECONDS_MIN, arg[1]) /\ LeS(arg[1], RD_SECONDS_MAX)
                 THEN Some(<<arg[1], arg[2]>>)
                 ELSE None
        /\ res # None => ~LtU(W32(NANOSECOND_MAX), res[2][2])
        /\ arg = <<I64(-1), W32(999999999)>> => res = Some(<<I64(-1), W32(999999999)>>)

\* the timestamp one nanosecond before the epoch has been converted
C20_Witness ==
    /\ kind = "systemtime" /\ Ended("systemtime_to_secs")
    /\ arg = <<I64(-1), W32(999999999)>>
    /\ res = Some(<<I64(-1), W32(999999999)>>)

\* C21: for every secs in [RD_SECONDS_MIN, RD_SECONDS_MAX] and nsecs in
\* [0, 999_999_999], secs_to_systemtime((secs, nsecs)) does not halt and is
\* Some of the timestamp secs * 10^9 + nsecs nanoseconds from the epoch (the
\* timespec of seconds secs and nanoseconds nsecs), never None on a host with
\* signed 64-bit seconds.  For secs < 0 and nsecs > 0 it is the epoch minus
\* ((-secs - 1) seconds + (10^9 - nsecs) nanoseconds), where 10^9 - nsecs is
\* in 1..999_999_999 (no underflow, no carry); for secs < 0 and nsecs = 0 it
\* is the epoch minus -secs seconds; for secs >= 0 the epoch plus (secs, nsecs).
C21_SecsToSystemtime ==
    (kind = "secs_nsecs" /\ Ended("secs_to_systemtime")) =>
        LET secs  == arg[1]
            nsecs == arg[2]
            neg   == SubW(I64(0), secs)
            sub   == SubW(W32(NANOS_PER_SEC), nsecs)
        IN  /\ ~panic
            /\ res = Some(<<secs, nsecs>>)
            /\ LeS(I64(0), secs) => res = EpochCheckedAdd(<<secs, nsecs>>)
            /\ (~LeS(I64(0), secs) /\ nsecs # W32(0)) =>
                    /\ LtU(W32(0), sub) /\ LtU(sub, W32(NANOS_PER_SEC))
                    /\ res = EpochCheckedSub(<<SubW(neg, I64(1)), sub>>)
            /\ (~LeS(I64(0), secs) /\ nsecs = W32(0)) =>
                    res = EpochCheckedSub(<<neg, W32(0)>>)

\* (-2, 999_999_999), one second and one nanosecond before the epoch, has
\* been converted
C21_Witness ==
    /\ kind = "secs_nsecs" /\ Ended("secs_to_systemtime")
    /\ arg = <<I64(-2), W32(999999999)>>
    /\ res = EpochCheckedSub(<<I64(1), W32(1)>>)
    /\ res = Some(<<I64(-2), W32(999999999)>>)

\* C22: date_to_rd and rd_to_date relate the documented pairs in both
\* directions: (1970,1,1) with 0, (2023,5,12) with 19489, (0,1,1) with
\* -719528, (9999,12,31) with 2932896, (129999,12,31) with 46761996 and
\* (-129999,1,1) with -48200687.
C22_DocumentedPairs ==
    /\ (kind = "date" /\ Returned("date_to_rd")) =>
            /\ arg = <<1970, 1, 1>> => res = 0
            /\ arg = <<2023, 5, 12>> => res = 19489
            /\ arg = <<0, 1, 1>> => res = -719528
            /\ arg = <<9999, 12, 31>> => res = 2932896
            /\ arg = <<129999, 12, 31>> => res = 46761996
            /\ arg = <<-129999, 1, 1>> => res = -48200687
    /\ (kind = "rd" /\ Returned("rd_to_date")) =>
            /\ arg = 0 => res = <<1970, 1, 1>>
            /\ arg = 19489 => res = <<2023, 5, 12>>
            /\ arg = -719528 => res = <<0, 1, 1>>
            /\ arg = 2932896 => res = <<9999, 12, 31>>
            /\ arg = 46761996 => res = <<129999, 12, 31>>
            /\ arg = -48200687 => res = <<-129999, 1, 1>>

\* the day count -48200687 has been converted to -129999-01-01
C22_Witness ==
    /\ kind = "rd" /\ Returned("rd_to_date")
    /\ arg = -48200687
    /\ res = <<-129999, 1, 1>>

\* C23: for every valid date (y, m, d) in range the ISO year returned by
\* date_to_isoweekdate is y, or y - 1 and the date is one of January 1..3,
\* or y + 1 and the date is one of December 29..31; (2023,1,1) gives
\* (2022,52,7), (1979,12,31) gives (1980,1,1), (1982,1,1) gives (1981,53,5).
C23_IsoYearOfDate ==
    (kind = "date" /\ Returned("date_to_isoweekdate")) =>
        /\ \/ res[1] = arg[1]
           \/ res[1] = arg[1] - 1 /\ arg[2] = 1 /\ arg[3] <= 3
           \/ res[1] = arg[1] + 1 /\ arg[2] = 12 /\ arg[3] >= 29
        /\ arg = <<2023, 1, 1>> => res = <<2022, 52, 7>>
        /\ arg = <<1979, 12, 31>> => res = <<1980, 1, 1>>
        /\ arg = <<1982, 1, 1>> => res = <<1981, 53, 5>>

\* December 29 of a year whose last days belong to the next ISO year has
\* been converted
C23_Witness ==
    /\ kind = "date" /\ Returned("date_to_isoweekdate")
    /\ arg = <<2025, 12, 29>>
    /\ res = <<2026, 1, 1>>

\* the weekday (1 = Monday .. 7 = Sunday) of day t by counting from RD_MIN,
\* a Monday, and the Monday of the week of t
WeekdayOf(t) == ((t - RD_MIN) % 7) + 1
MondayOf(t) == t - (WeekdayOf(t) - 1)

\* C24: for every rd in [RD_MIN, RD_MAX], rd_to_isoweekdate(rd) follows the
\* ISO definition: exactly one day th within 3 days of rd is the Thursday of
\* the Monday-to-Sunday week of rd, and it lies in [RD_MIN, RD_MAX]; the ISO
\* year is the calendar year of th; the week is (th - date_to_rd((year, 1,
\* 1))) / 7 + 1, the number of Thursdays of that year up to and including
\* th; the weekday is rd_to_weekday(rd).
C24_IsoDefinition ==
    (kind = "rd" /\ Returned("rd_to_isoweekdate")) =>
        LET S == {t \in (arg - 3)..(arg + 3) : WeekdayOf(t) = 4 /\ MondayOf(t) = MondayOf(arg)}
        IN  /\ Cardinality(S) = 1
            /\ \A th \in S :
                   LET y    == rd_to_date(th)[1]
                       jan1 == date_to_rd(<<y, 1, 1>>)
                   IN  /\ th >= RD_MIN /\ th <= RD_MAX
                       /\ res[1] = y
                       /\ jan1 <= th
                       /\ res[2] = (th - jan1) \div 7 + 1
                       /\ res[2] = Cardinality({k \in 0..53 : th - 7 * k >= jan1})
            /\ res[3] = rd_to_weekday(arg)
            /\ res[3] = WeekdayOf(arg)

\* the first day of the range, a Monday whose Thursday is three days later,
\* has been converted
C24_Witness ==
    /\ kind = "rd" /\ Returned("rd_to_isoweekdate")
    /\ arg = RD_MIN
    /\ res = <<YEAR_MIN, 1, 1>>
    /\ rd_to_date(RD_MIN + 3) = <<YEAR_MIN, 1, 4>>

\* C25: for every rd in [RD_MIN, RD_MAX], rd_to_isoweekdate(rd) = (iso_year,
\* week, weekday) has iso_year in [YEAR_MIN, YEAR_MAX], weekday in 1..7 and
\* 1 <= week <= isoweeks_in_year(iso_year), which is 52 or 53.
C25_IsoweekdateInRange ==
    (kind = "rd" /\ Returned("rd_to_isoweekdate")) =>
        /\ res[1] >= YEAR_MIN /\ res[1] <= YEAR_MAX
        /\ res[3] >= WEEKDAY_MIN /\ res[3] <= WEEKDAY_MAX
        /\ res[2] >= WEEK_MIN /\ res[2] <= isoweeks_in_year(res[1])
        /\ isoweeks_in_year(res[1]) \in {52, 53}

\* 2020-12-31, in week 53 of a leap year that starts on a Wednesday, has
\* been converted
C25_Witness ==
    /\ kind = "rd" /\ Returned("rd_to_isoweekdate")
    /\ arg = 18627
    /\ res = <<2020, 53, 4>>
    /\ isoweeks_in_year(2020) = 53

\* the value of a word whose high limbs are zero
LowVal(w) == w[1] + Base * (w[2] + Base * (w[3] + Base * w[4]))

\* C26: the split by 60 of secs_to_dhms is exact on its stated domain: for
\* every n in [0, 97612919), (71582789 * n) >> 32 = n / 60 and ((71582789 * n)
\* mod 2^32) / 71582789 = n mod 60; and the two dividends secs_to_dhms
\* applies it to, the seconds of the day (< 86400) and the minutes of the day
\* (< 1440), lie in that domain, so that the minute and second it returns are
\* those of the split.
C26_SplitBySixty ==
    /\ (kind = "split" /\ Returned("split60")) =>
            /\ LowVal(arg) < SPLIT_LIMIT
            /\ res[1] = I64(LowVal(arg) \div 60)
            /\ res[2] = W32(LowVal(arg) % 60)
    /\ (kind = "secs" /\ Returned("secs_to_dhms")) =>
            LET r == res[2] * 3600 + res[3] * 60 + res[4]
            IN  /\ arg = SecsOf(res[1], r)
                /\ r < 86400 /\ 86400 < SPLIT_LIMIT
                /\ r \div 60 < 1440 /\ 1440 < SPLIT_LIMIT
                /\ split60(I64(r)) = <<I64(r \div 60), W32(res[4])>>
                /\ split60(I64(r \div 60)) = <<I64(res[2]), W32(res[3])>>

\* the largest dividend of the domain has been split
C26_Witness ==
    /\ kind = "split" /\ Returned("split60")
    /\ arg = I64(97612918)
    /\ res = <<I64(1626881), W32(58)>>

\* 96-bit words, wide enough for every product below never to wrap, and the
\* test that a word is less than 2^(8k)
W96(n) == Limbs(n, 12)
Fits(w, k) == w = ZExt(Trunc(w, k), Len(w))

\* the steps of date_to_internal and date_to_rd over integers that do not
\* wrap: <<every intermediate is in [0, 2^32), the result>>
DateToRdWide(date) ==
    LET jf == IF date[2] < 3 THEN 1 ELSE 0
        y1 == date[1] + YEAR_OFFSET - jf
        c  == y1 \div 100
        m1 == date[2] + 12 * jf
        yy == MulW(W96(1461), W96(y1))                   \* 1461 * y
        yq == DivU(yy, 4)
        ys == AddW(SubW(yq, W96(c)), W96(c \div 4))
        mm == (979 * m1 - 2919) \div 32
        n  == AddW(AddW(ys, W96(mm)), W96(date[3] - 1))
    IN  <<  /\ date[1] + YEAR_OFFSET >= 0 /\ y1 >= 0 /\ c >= 0
            /\ Fits(yy, 4) /\ ~LtU(yq, W96(c)) /\ Fits(ys, 4)
            /\ 979 * m1 - 2919 >= 0 /\ date[3] - 1 >= 0
            /\ Fits(n, 4) /\ n[4] < 128,
          LowVal(n) - DAY_OFFSET >>

\* the steps of rd_to_date over integers that do not wrap: <<n + DAY_OFFSET >=
\* 0, 4 * n + 3 < 2^32, 2939745 * n < 2^64 and 2141 * n + 197913 < 2^32, the
\* result>>
RdToDateWide(n) ==
    LET n0 == n + DAY_OFFSET
        n1 == AddW(MulW(W96(4), W96(n0)), W96(3))        \* 4 * n + 3
        c  == DivU(n1, 146097)
        n2 == OrW(ModU(n1, 146097), W96(3))
        pp == MulW(W96(2939745), n2)                     \* 2939745 * n
        z  == ShrLimbs(pp, 4)
        n3 == DivU(DivU(ZExt(Trunc(pp, 4), 12), 2939745), 4)
        j  == ~LtU(n3, W96(306))
        y  == AddW(AddW(MulW(W96(100), c), z), W96(IF j THEN 1 ELSE 0))
        n4 == AddW(MulW(W96(2141), n3), W96(197913))     \* 2141 * n + 197913
        m  == ShrLimbs(n4, 2)
        d  == DivU(ZExt(Trunc(n4, 2), 12), 2141)
    IN  <<  /\ n0 >= 0
            /\ Fits(n1, 4) /\ Fits(pp, 8) /\ Fits(n4, 4)
            /\ Fits(y, 4) /\ y[4] < 128,
          <<LowVal(y) - YEAR_OFFSET, LowVal(m) - (IF j THEN 12 ELSE 0), LowVal(d) + 1>> >>

\* C27: within the supported range no intermediate value of the day codec
\* overflows or underflows its machine word.  For every valid date every
\* step of date_to_internal and date_to_rd stays in [0, 2^32) (1461 * y at
\* YEAR_MAX and y - jf at YEAR_MIN included); for every n in [RD_MIN, RD_MAX],
\* n + DAY_OFFSET >= 0, 4 * (n + DAY_OFFSET) + 3 < 2^32, 2141 * n + 197913 <
\* 2^32 and 2939745 * n < 2^64 in rd_to_date, and n - RD_MIN fits in i32 in
\* rd_to_weekday.  No overflow check halts a build that has them, and the
\* 32-bit results are those of the same formulas over integers that do not
\* wrap.
C27_NoOverflow ==
    /\ (kind = "date" /\ Ended("date_to_rd")) =>
            /\ ~panic
            /\ ~date_to_rd_overflows(arg)
            /\ DateToRdWide(arg)[1]
            /\ res = DateToRdWide(arg)[2]
    /\ (kind = "rd" /\ Ended("rd_to_date")) =>
            /\ ~panic
            /\ ~rd_to_date_overflows(arg)
            /\ RdToDateWide(arg)[1]
            /\ res = RdToDateWide(arg)[2]
    /\ (kind = "rd" /\ Ended("rd_to_weekday")) =>
            /\ ~panic
            /\ ~rd_to_weekday_overflows(arg)
            /\ arg - RD_MIN >= 0 /\ arg - RD_MIN <= I32_MAX

\* a date of YEAR_MAX after February, where 1461 * y is 4294965984, 1312
\* below 2^32, has been converted in a build with overflow checks
C27_Witness ==
    /\ debug /\ kind = "date" /\ Ended("date_to_rd")
    /\ arg = <<YEAR_MAX, 12, 31>>
    /\ ~panic /\ res = RD_MAX
    /\ MulW(W96(1461), W96(YEAR_MAX + YEAR_OFFSET)) = ZExt(W32(-1312), 12)

\* C28: for every n with n and n + 1 in [RD_MIN, RD_MAX], if
\* rd_to_isoweekdate(n) = (y, w, wd) then rd_to_isoweekdate(n + 1) is
\* (y, w, wd + 1) when wd < 7, (y, w + 1, 1) when wd = 7 and w <
\* isoweeks_in_year(y), and (y + 1, 1, 1) when wd = 7 and w =
\* isoweeks_in_year(y).
C28_IsoweekdateSteps ==
    (kind = "rd" /\ Returned("rd_to_isoweekdate") /\ arg + 1 <= RD_MAX) =>
        rd_to_isoweekdate(arg + 1) =
            IF res[3] < 7 THEN <<res[1], res[2], res[3] + 1>>
            ELSE IF res[2] < isoweeks_in_year(res[1]) THEN <<res[1], res[2] + 1, 1>>
            ELSE <<res[1] + 1, 1, 1>>

\* the Sunday of week 53 of 2020 has been converted; the next day opens 2021
C28_Witness ==
    /\ kind = "rd" /\ Returned("rd_to_isoweekdate")
    /\ arg = 18630
    /\ res = <<2020, 53, 7>>
    /\ rd_to_isoweekdate(18631) = <<2021, 1, 1>>

\* dt is a valid datetime of the supported range
ValidDatetime(dt) ==
    /\ ValidDate(<<dt[1], dt[2], dt[3]>>)
    /\ dt[4] >= HOUR_MIN /\ dt[4] <= HOUR_MAX
    /\ dt[5] >= MINUTE_MIN /\ dt[5] <= MINUTE_MAX
    /\ dt[6] >= SECOND_MIN /\ dt[6] <= SECOND_MAX

\* C29: for every s in [RD_SECONDS_MIN, RD_SECONDS_MAX], secs_to_datetime(s)
\* is a valid datetime and datetime_to_secs(secs_to_datetime(s)) = s; for
\* every valid datetime dt, datetime_to_secs(dt) lies in [RD_SECONDS_MIN,
\* RD_SECONDS_MAX] and secs_to_datetime(datetime_to_secs(dt)) = dt;
\* 1684574678 and (2023, 5, 20, 9, 24, 38) correspond.
C29_DatetimeRoundTrip ==
    /\ (kind = "secs" /\ Ended("secs_to_datetime")) =>
            /\ ~panic
            /\ ValidDatetime(res)
            /\ datetime_to_secs(res) = arg
            /\ arg = DocSecs => res = <<2023, 5, 20, 9, 24, 38>>
    /\ (kind = "datetime" /\ Ended("datetime_to_secs")) =>
            /\ ~panic
            /\ LeS(RD_SECONDS_MIN, res) /\ LeS(res, RD_SECONDS_MAX)
            /\ secs_to_datetime(res) = arg
            /\ arg = <<2023, 5, 20, 9, 24, 38>> => res = DocSecs

\* the last second of the range has been converted to the last datetime
C29_Witness ==
    /\ kind = "secs" /\ Ended("secs_to_datetime")
    /\ arg = RD_SECONDS_MAX
    /\ res = <<YEAR_MAX, 12, 31, 23, 59, 59>>
    /\ datetime_to_secs(res) = RD_SECONDS_MAX

\* C30: the two timestamp conversions are inverse wherever defined: for
\* every secs in [RD_SECONDS_MIN, RD_SECONDS_MAX] and nsecs in [0,
\* 999_999_999], if secs_to_systemtime((secs, nsecs)) is Some(t) then
\* systemtime_to_secs(t) = Some((secs, nsecs)); and for every timestamp t
\* with systemtime_to_secs(t) = Some(p), secs_to_systemtime(p) = Some(t).
C30_TimestampRoundTrip ==
    /\ (kind = "secs_nsecs" /\ Returned("secs_to_systemtime") /\ res # None) =>
            systemtime_to_secs(res[2]) = Some(arg)
    /\ (kind = "systemtime" /\ Returned("systemtime_to_secs") /\ res # None) =>
            /\ ~secs_to_systemtime_halts(res[2])
            /\ secs_to_systemtime(res[2]) = Some(arg)

\* a timestamp one and a half seconds before the epoch has been converted to
\* (-2, 500_000_000), which converts back to it
C30_Witness ==
    /\ kind = "systemtime" /\ Returned("systemtime_to_secs")
    /\ arg = <<I64(-2), W32(500000000)>>
    /\ res = Some(<<I64(-2), W32(500000000)>>)
    /\ secs_to_systemtime(res[2]) = Some(arg)
    /\ DurationSinceEpoch(arg) = <<"Err", <<I64(1), W32(500000000)>>>>

=============================================================================
